---- MODULE Spec2Model ----
(***************************************************************************)
(* Recurrence engine of Famloop: the per-day occurrence predicates         *)
(* isEventOnDay (events) and isChoreOnDay (chores) and the window expander *)
(* expandRecurringEvents, together with the part of the JavaScript Date    *)
(* object and of date-fns they are written against.                        *)
(*                                                                         *)
(* A timestamp is an integer count of SECONDS since 1970-01-01T00:00Z (the *)
(* program holds milliseconds; every timestamp of the model is a whole     *)
(* second, so the millisecond field of every Date is 0).  A Date is its    *)
(* timestamp.  Calendar fields are read in the ambient local time zone tz. *)
(* An optional field is <<>> when absent and <<v>> when present.           *)
(***************************************************************************)
EXTENDS Integers, Sequences, FiniteSets, TLC

VARIABLES
    tz,              \* the ambient time zone of the runtime (fixed per run)
    pc,              \* position of the running call of expandRecurringEvents
    pred,            \* the last call of an occurrence predicate and its result
    events,          \* expandRecurringEvents: argument events
    rangeStart,      \* expandRecurringEvents: argument rangeStart
    rangeEnd,        \* expandRecurringEvents: argument rangeEnd
    idx,             \* index of the event the for-loop is at (1-based)
    currentDate,     \* the while-loop's currentDate
    iterations,      \* the while-loop's iterations
    expandedEvents,  \* the instances pushed so far / the returned list
    editor,          \* useEventEditor: the state of the hook
    updated,         \* useEventEditor: what the last getUpdatedEvent returned
    users,           \* server: the users table
    now,             \* server: the clock Date.now() reads
    reply,           \* server: the last mutation called and its outcome
    chores,          \* server: the chores table
    choreCompletions, \* server: the choreCompletions table
    points,          \* server: the points table
    created,         \* server: how many completions were ever inserted
    invitations,     \* server: the invitations table
    committingDragRef, \* useEvents: committingDragRef.current
    moves,           \* useEvents: the move mutations not settled yet
    timers,          \* useEvents: the setTimeout callbacks not run yet
    dragCalls,       \* useEvents: how many commitDrag calls passed the guard
    eventsError      \* useEvents: the error state of the hook

expandVars == <<events, rangeStart, rangeEnd, idx, currentDate, iterations,
                expandedEvents>>

engineVars == <<tz, pc, pred, expandVars>>

editorVars == <<editor, updated>>

serverVars == <<users, now, reply>>

choreVars == <<chores, choreCompletions, points, created>>

inviteVars == <<invitations>>

dragVars == <<committingDragRef, moves, timers, dragCalls, eventsError>>

\* The state of the other parts of the application, which the recurrence
\* engine never touches.
appVars == <<editorVars, serverVars, choreVars, inviteVars, dragVars>>

\* What the event editor never touches.
outsideEditor == <<serverVars, choreVars, inviteVars, dragVars>>

vars == <<tz, pc, pred, events, rangeStart, rangeEnd, idx, currentDate,
          iterations, expandedEvents, appVars>>

----------------------------------------------------------------------------
(* Units of time, in seconds.                                              *)

Minute == 60
Hour == 60 * Minute
SecPerDay == 24 * Hour

\* The timestamp of h:m:s UTC on day number d (day 0 is 1970-01-01).
At(d, h, m, s) == d * SecPerDay + h * Hour + m * Minute + s

Absent == <<>>
Some(v) == <<v>>
IsPresent(o) == Len(o) > 0
Value(o) == o[1]

Abs(n) == IF n < 0 THEN -n ELSE n
Sign(n) == IF n < 0 THEN -1 ELSE IF n > 0 THEN 1 ELSE 0

\* JavaScript's a % b on integers: the remainder of the truncating division,
\* with the sign of the dividend (b is never 0 where this is used).
JsRem(a, b) == Sign(a) * (Abs(a) % Abs(b))

\* Math.trunc(a / b) for b > 0.
TruncDiv(a, b) == Sign(a) * (Abs(a) \div b)

----------------------------------------------------------------------------
(* The local time zone: a standard offset east of UTC and one daylight     *)
(* saving period per year, entered at 02:00 local standard time of local   *)
(* day dstStart and left at 02:00 local daylight time of local day dstEnd. *)

DstStartUtc == tz.dstStart * SecPerDay + 2 * Hour - tz.off
DstEndUtc == tz.dstEnd * SecPerDay + 2 * Hour - (tz.off + Hour)
InDst(t) == tz.dstStart < tz.dstEnd /\ t >= DstStartUtc /\ t < DstEndUtc

\* LocalTime(t): the local wall-clock reading of timestamp t, as seconds
\* since local 1970-01-01T00:00.
LocalTime(t) == t + tz.off + (IF InDst(t) THEN Hour ELSE 0)

\* UTC(l): the timestamp of local wall-clock reading l.  A reading skipped by
\* the spring-forward gap or repeated at fall-back is interpreted with the
\* offset in force before the transition (ECMA-262, LocalTime / UTC).
UTC(l) ==
    LET tDaylight == l - (tz.off + Hour)
    IN  IF InDst(tDaylight) THEN tDaylight ELSE l - tz.off

LocalDay(t) == LocalTime(t) \div SecPerDay
TimeOfDay(t) == LocalTime(t) % SecPerDay

----------------------------------------------------------------------------
(* The proleptic Gregorian calendar on day numbers (day 0 = 1970-01-01).   *)

\* [year, month (0 = January), date] of day number d.
Civil(d) ==
    LET z == d + 719468
        era == z \div 146097
        doe == z - era * 146097
        yoe == (doe - doe \div 1460 + doe \div 36524 - doe \div 146096) \div 365
        doy == doe - (365 * yoe + yoe \div 4 - yoe \div 100)
        mp == (5 * doy + 2) \div 153
        m == IF mp < 10 THEN mp + 3 ELSE mp - 9
    IN  [year |-> yoe + era * 400 + (IF m <= 2 THEN 1 ELSE 0),
         month |-> m - 1,
         date |-> doy - (153 * mp + 2) \div 5 + 1]

\* MakeDay of ECMA-262: the day number of year/month/date, where month and
\* date may lie outside their ranges and carry over.
MakeDay(year, month, date) ==
    LET ym == year + month \div 12
        m == (month % 12) + 1
        y == IF m <= 2 THEN ym - 1 ELSE ym
        era == y \div 400
        yoe == y - era * 400
        doy == (153 * (IF m > 2 THEN m - 3 ELSE m + 9) + 2) \div 5
        doe == yoe * 365 + yoe \div 4 - yoe \div 100 + doy
    IN  era * 146097 + doe - 719468 + date - 1

getFullYear(t) == Civil(LocalDay(t)).year
getMonth(t) == Civil(LocalDay(t)).month
getDate(t) == Civil(LocalDay(t)).date
getHours(t) == TimeOfDay(t) \div Hour
getMinutes(t) == (TimeOfDay(t) % Hour) \div Minute
getSeconds(t) == TimeOfDay(t) % Minute

\* Date.prototype.setHours(h, m, s, ms) with ms = 0.
setHours(t, h, m, s) == UTC(LocalDay(t) * SecPerDay + h * Hour + m * Minute + s)

\* Date.prototype.setDate(date).
setDate(t, date) ==
    UTC(MakeDay(getFullYear(t), getMonth(t), date) * SecPerDay + TimeOfDay(t))

\* Date.prototype.setMonth(month).
setMonth(t, month) ==
    UTC(MakeDay(getFullYear(t), month, getDate(t)) * SecPerDay + TimeOfDay(t))

----------------------------------------------------------------------------
(* date-fns.                                                               *)

startOfDay(t) == setHours(t, 0, 0, 0)
isBefore(a, b) == a < b
isSameDay(a, b) == startOfDay(a) = startOfDay(b)
\* 1970-01-01 was a Thursday (4).
getDay(t) == (LocalDay(t) + 4) % 7
addDays(t, amount) == setDate(t, getDate(t) + amount)

\* compareLocalAsc of differenceInDays: the order of the local fields.
compareLocalAsc(a, b) == Sign(LocalTime(a) - LocalTime(b))
differenceInCalendarDays(a, b) == LocalDay(a) - LocalDay(b)

differenceInDays(dateLeft, dateRight) ==
    LET sign == compareLocalAsc(dateLeft, dateRight)
        difference == Abs(differenceInCalendarDays(dateLeft, dateRight))
        moved == setDate(dateLeft, getDate(dateLeft) - sign * difference)
        isLastDayNotFull ==
            IF compareLocalAsc(moved, dateRight) = -sign THEN 1 ELSE 0
    IN  sign * (difference - isLastDayNotFull)

differenceInWeeks(dateLeft, dateRight) ==
    TruncDiv(differenceInDays(dateLeft, dateRight), 7)

differenceInCalendarMonths(a, b) ==
    (getFullYear(a) - getFullYear(b)) * 12 + (getMonth(a) - getMonth(b))

isLastDayOfMonth(t) == getMonth(t) # getMonth(addDays(t, 1))

differenceInMonths(dateLeft, dateRight) ==
    LET sign == Sign(dateLeft - dateRight)
        difference == Abs(differenceInCalendarMonths(dateLeft, dateRight))
        left1 == IF getMonth(dateLeft) = 1 /\ getDate(dateLeft) > 27
                 THEN setDate(dateLeft, 30) ELSE dateLeft
        left2 == setMonth(left1, getMonth(left1) - sign * difference)
        notFull == Sign(left2 - dateRight) = -sign
        isLastMonthNotFull ==
            IF isLastDayOfMonth(dateLeft) /\ difference = 1
               /\ Sign(dateLeft - dateRight) = 1
            THEN FALSE ELSE notFull
    IN  IF difference < 1 THEN 0
        ELSE sign * (difference - (IF isLastMonthNotFull THEN 1 ELSE 0))

\* startOfWeek(date, { weekStartsOn: 0 }).
startOfWeek(t) == startOfDay(setDate(t, getDate(t) - getDay(t)))

----------------------------------------------------------------------------
(* The occurrence predicates.  An event is a record with the fields of     *)
(* RecurringEvent; a chore carries weekStart in place of startTime.        *)
(* isRecurring absent is isRecurring false; daysOfWeek absent is the empty *)
(* set (the code reads both the same way); recurrenceType absent or        *)
(* unknown is "none".                                                      *)

\* JavaScript truthiness of an optional number: present and not 0.
Truthy(o) == IsPresent(o) /\ Value(o) # 0

\* event.recurrenceCount || 1
recurrenceInterval(rule) ==
    IF Truthy(rule.recurrenceCount) THEN Value(rule.recurrenceCount) ELSE 1

\* The block "if (event.recurrenceEndDate) { ... }" of isEventOnDay: TRUE
\* when it returns false for the normalized date.
pastRecurrenceEnd(event, normalizedDate) ==
    /\ Truthy(event.recurrenceEndDate)
    /\ isBefore(startOfDay(Value(event.recurrenceEndDate)), normalizedDate)

\* Faulty variant of beforeStart: the guard is missing.
beforeStartMissing(normalizedDate, normalizedEventDate) == FALSE

\* The guard "if (isBefore(normalizedDate, normalizedEventDate)) return false".
beforeStart(normalizedDate, normalizedEventDate) ==
    isBefore(normalizedDate, normalizedEventDate)

\* Faulty variant of singleEventMatch: the week test of the chore predicate.
singleEventMatchSameWeek(normalizedDate, normalizedEventDate) ==
    isSameDay(startOfWeek(normalizedEventDate), startOfWeek(normalizedDate))

\* Non-recurring events: "return isSameDay(normalizedDate, normalizedEventDate)".
singleEventMatch(normalizedDate, normalizedEventDate) ==
    isSameDay(normalizedDate, normalizedEventDate)

\* Faulty variant of singleChoreMatch: the chore's own day only.
singleChoreMatchSameDay(normalizedDate, normalizedChoreDate) ==
    isSameDay(normalizedDate, normalizedChoreDate)

\* Non-recurring chores: the same week, weeks starting on Sunday.
singleChoreMatch(normalizedDate, normalizedChoreDate) ==
    isSameDay(startOfWeek(normalizedChoreDate), startOfWeek(normalizedDate))

\* Faulty variant of dailyMatch: the interval is off by one.
dailyMatchOffByOne(daysDiff, interval) == JsRem(daysDiff, interval + 1) = 0

\* case "daily"
dailyMatch(daysDiff, interval) == JsRem(daysDiff, interval) = 0

\* Faulty variant of weeklyMatch: daysOfWeek is never consulted.
weeklyMatchAnchorDayOnly(rule, normalizedDate, normalizedEventDate, interval) ==
    LET weeksDiff == differenceInWeeks(normalizedDate, normalizedEventDate)
    IN  IF JsRem(weeksDiff, interval) # 0 THEN FALSE
        ELSE getDay(normalizedEventDate) = getDay(normalizedDate)

\* case "weekly"
weeklyMatch(rule, normalizedDate, normalizedEventDate, interval) ==
    LET weeksDiff == differenceInWeeks(normalizedDate, normalizedEventDate)
    IN  IF JsRem(weeksDiff, interval) # 0 THEN FALSE
        ELSE IF rule.daysOfWeek # {}
             THEN getDay(normalizedDate) \in rule.daysOfWeek
             ELSE getDay(normalizedEventDate) = getDay(normalizedDate)

\* case "monthly"
\* Faulty variant of monthlyMatch: in a month without the anchor's day of
\* month, the last day of the month matches.
monthlyMatchClamped(normalizedDate, normalizedEventDate, interval) ==
    LET monthsDiff == differenceInMonths(normalizedDate, normalizedEventDate)
    IN  IF JsRem(monthsDiff, interval) # 0 THEN FALSE
        ELSE \/ getDate(normalizedDate) = getDate(normalizedEventDate)
             \/ /\ isLastDayOfMonth(normalizedDate)
                /\ getDate(normalizedDate) < getDate(normalizedEventDate)

monthlyMatch(normalizedDate, normalizedEventDate, interval) ==
    LET monthsDiff == differenceInMonths(normalizedDate, normalizedEventDate)
    IN  IF JsRem(monthsDiff, interval) # 0 THEN FALSE
        ELSE getDate(normalizedDate) = getDate(normalizedEventDate)

\* Faulty variant of fallbackMatch: a rule without a known type is daily.
fallbackMatchAsDaily(daysDiff, interval) == dailyMatch(daysDiff, interval)

\* default: a recurring rule without a known type occurs every day.
fallbackMatch(daysDiff, interval) == TRUE

isEventOnDay(event, date) ==
    LET normalizedDate == startOfDay(date)
        normalizedEventDate == startOfDay(event.startTime)
        daysDiff == differenceInDays(normalizedDate, normalizedEventDate)
        interval == recurrenceInterval(event)
    IN  IF beforeStart(normalizedDate, normalizedEventDate) THEN FALSE
        ELSE IF pastRecurrenceEnd(event, normalizedDate) THEN FALSE
        ELSE IF ~event.isRecurring
             THEN singleEventMatch(normalizedDate, normalizedEventDate)
        ELSE CASE event.recurrenceType = "daily" ->
                    dailyMatch(daysDiff, interval)
               [] event.recurrenceType = "weekly" ->
                    weeklyMatch(event, normalizedDate, normalizedEventDate,
                                interval)
               [] event.recurrenceType = "monthly" ->
                    monthlyMatch(normalizedDate, normalizedEventDate, interval)
               [] OTHER -> fallbackMatch(daysDiff, interval)

\* Faulty variant of isChoreOnDay: the rule is anchored at the Sunday that
\* starts the week of weekStart.
isChoreOnDayFromSunday(chore, date) ==
    isEventOnDay([startTime |-> startOfWeek(chore.weekStart),
                  isRecurring |-> chore.isRecurring,
                  recurrenceType |-> chore.recurrenceType,
                  recurrenceCount |-> chore.recurrenceCount,
                  daysOfWeek |-> chore.daysOfWeek,
                  recurrenceEndDate |-> Absent], date)

isChoreOnDay(chore, date) ==
    LET normalizedDate == startOfDay(date)
        normalizedChoreDate == startOfDay(chore.weekStart)
        daysDiff == differenceInDays(normalizedDate, normalizedChoreDate)
        interval == recurrenceInterval(chore)
    IN  IF beforeStart(normalizedDate, normalizedChoreDate) THEN FALSE
        ELSE IF ~chore.isRecurring
             THEN singleChoreMatch(normalizedDate, normalizedChoreDate)
        ELSE CASE chore.recurrenceType = "daily" ->
                    dailyMatch(daysDiff, interval)
               [] chore.recurrenceType = "weekly" ->
                    weeklyMatch(chore, normalizedDate, normalizedChoreDate,
                                interval)
               [] chore.recurrenceType = "monthly" ->
                    monthlyMatch(normalizedDate, normalizedChoreDate, interval)
               [] OTHER -> fallbackMatch(daysDiff, interval)

----------------------------------------------------------------------------
(* expandRecurringEvents.                                                  *)

maxIterations == 400

\* Faulty variant of withinRange: the lower bound is not tested.
withinRangeNoLowerBound(start, rs, re) == start <= re

\* Faulty variant of withinRange: the bounds themselves are left out.
withinRangeExclusive(start, rs, re) == start > rs /\ start < re

\* "eventStart >= rangeStart && eventStart <= rangeEnd", and the same test on
\* instanceStart.
withinRange(start, rs, re) == start >= rs /\ start <= re

\* The end of expansion: the range end, or the recurrence end when it is
\* present (truthy) and earlier.
expansionEnd(event, re) ==
    IF Truthy(event.recurrenceEndDate) /\ Value(event.recurrenceEndDate) < re
    THEN Value(event.recurrenceEndDate)
    ELSE re

\* startOfDay(eventStartDate < rangeStart ? rangeStart : eventStartDate)
firstDate(event, rs) ==
    startOfDay(IF event.startTime < rs THEN rs ELSE event.startTime)

\* Faulty variant of loopContinues: no iteration cap.
loopContinuesUncapped(event, date, n, re) == date <= expansionEnd(event, re)

\* The loop condition of the day walk.
loopContinues(event, date, n, re) ==
    date <= expansionEnd(event, re) /\ n < maxIterations

\* Faulty variant of instanceStartOf: the anchor moved by whole 24-hour days.
instanceStartBy24h(event, date) ==
    event.startTime
    + differenceInCalendarDays(date, event.startTime) * SecPerDay

\* instanceStart: currentDate with the hours, minutes and seconds of the
\* event's start.
instanceStartOf(event, date) ==
    setHours(date, getHours(event.startTime), getMinutes(event.startTime),
             getSeconds(event.startTime))

\* Faulty variant of instanceEndOf: the end's time of day on the start's day.
instanceEndByClock(event, instanceStart) ==
    setHours(instanceStart, getHours(event.endTime), getMinutes(event.endTime),
             getSeconds(event.endTime))

\* instanceEnd: instanceStart plus the event's duration.
instanceEndOf(event, instanceStart) ==
    instanceStart + (event.endTime - event.startTime)

\* Faulty variant of freshExpandedEvents: the list outlives the call.
keptExpandedEvents(kept) == kept

\* const expandedEvents = []: every call starts from a list of its own,
\* whatever an earlier call left.
freshExpandedEvents(kept) == <<>>

\* Faulty variant of plainInstance: the id of the first event of the list.
plainInstanceOfFirst(event) ==
    event @@ [instanceDate |-> event.startTime,
              originalEventId |-> events[1]._id]

\* { ...event, instanceDate: event.startTime, originalEventId: event._id }
plainInstance(event) ==
    event @@ [instanceDate |-> event.startTime, originalEventId |-> event._id]

\* Faulty variant of recurringInstance: instanceDate is the start of the day
\* of the instance.
recurringInstanceDatedByDay(event, instanceStart) ==
    [event EXCEPT !.startTime = instanceStart,
                  !.endTime = instanceEndOf(event, instanceStart)]
    @@ [instanceDate |-> startOfDay(instanceStart),
        originalEventId |-> event._id]

\* { ...event, startTime, endTime, instanceDate, originalEventId }
recurringInstance(event, instanceStart) ==
    [event EXCEPT !.startTime = instanceStart,
                  !.endTime = instanceEndOf(event, instanceStart)]
    @@ [instanceDate |-> instanceStart, originalEventId |-> event._id]

\* Array.prototype.sort((a, b) => a.startTime - b.startTime): a stable sort.
RECURSIVE insertSorted(_, _)
insertSorted(sorted, x) ==
    IF sorted = <<>> THEN <<x>>
    ELSE IF sorted[Len(sorted)].startTime <= x.startTime
         THEN Append(sorted, x)
         ELSE Append(insertSorted(SubSeq(sorted, 1, Len(sorted) - 1), x),
                     sorted[Len(sorted)])

\* Faulty variant of sortByStartTime: the list is returned in push order.
sortByStartTimeSkipped(seq) == seq

RECURSIVE sortByStartTime(_)
sortByStartTime(seq) ==
    IF seq = <<>> THEN <<>>
    ELSE insertSorted(sortByStartTime(SubSeq(seq, 1, Len(seq) - 1)),
                      seq[Len(seq)])

----------------------------------------------------------------------------
(* The events queries of the server.  A row of the events table is a       *)
(* family id and the event; the participants a query attaches to every     *)
(* event it returns are read only and left out.                            *)

\* Non-recurring events of the family that start within the range.
nonRecurringEvents(table, familyId, startDate, endDate) ==
    SelectSeq(table, LAMBDA row :
        /\ row.familyId = familyId
        /\ row.doc.startTime >= startDate
        /\ row.doc.startTime <= endDate
        /\ ~row.doc.isRecurring)

\* Recurring events of the family that start no later than the range ends
\* and have no end date or one that is no earlier than the range start.
recurringEvents(table, familyId, startDate, endDate) ==
    SelectSeq(table, LAMBDA row :
        /\ row.familyId = familyId
        /\ row.doc.isRecurring
        /\ row.doc.startTime <= endDate
        /\ \/ ~IsPresent(row.doc.recurrenceEndDate)
           \/ Value(row.doc.recurrenceEndDate) >= startDate)

getByFamilyAndDateRange(table, familyId, startDate, endDate) ==
    LET allEvents ==
            nonRecurringEvents(table, familyId, startDate, endDate)
            \o recurringEvents(table, familyId, startDate, endDate)
    IN  [i \in 1 .. Len(allEvents) |-> allEvents[i].doc]

\* The caller is the identity of the request and the users row found for
\* it: without identity, or without a family, the query returns nothing.
getCurrentFamilyEvents(table, caller, startDate, endDate) ==
    IF ~caller.identity THEN <<>>
    ELSE IF ~IsPresent(caller.familyId) THEN <<>>
    ELSE getByFamilyAndDateRange(table, Value(caller.familyId), startDate,
                                 endDate)

----------------------------------------------------------------------------
(* The inputs the calls are made with.                                     *)

\* Bounds of the enumeration.
MaxDayOffset == 9     \* candidate days run from 2 days before the anchor
MaxEvents == 2        \* longest list of events given to the expander
WindowDays == 7       \* length in days of the short query windows

\* No daylight saving (UTC), and US Eastern time with its 1970 rules:
\* daylight time from Sunday 26 April to Sunday 25 October.
UtcZone == [off |-> 0, dstStart |-> 0, dstEnd |-> 0]
EasternZone == [off |-> -5 * Hour, dstStart |-> 115, dstEnd |-> 297]
TimeZones == {UtcZone, EasternZone}

\* Anchors: Thu 1 Jan 07:30:15Z, Sat 31 Jan 23:00Z, Fri 24 Apr 07:30:15Z
\* (02:30:15 Eastern, a reading the spring-forward gap of 26 Apr skips).
Anchors == {At(0, 7, 30, 15), At(30, 23, 0, 0), At(113, 7, 30, 15)}

RecurrenceTypes == {"daily", "weekly", "monthly", "none"}
\* The types the predicates are asked about: the same, and a value the type
\* declaration does not list.
ProbeTypes == RecurrenceTypes \cup {"yearly"}
RecurrenceCounts == {Absent, Some(-2), Some(0), Some(1), Some(2), Some(3)}
DaysOfWeekSets == {{}, {1, 3, 5}, {0}}
EndDates(start) ==
    {Absent, Some(0), Some(start + 3 * SecPerDay + 5 * Hour),
     Some(start - 2 * SecPerDay)}

MkEvent(id, start, end, rec, type, count, dow, until) ==
    [_id |-> id, startTime |-> start, endTime |-> end, isRecurring |-> rec,
     recurrenceType |-> type, recurrenceCount |-> count, daysOfWeek |-> dow,
     recurrenceEndDate |-> until]

MkChore(id, start, rec, type, count, dow) ==
    [_id |-> id, weekStart |-> start, isRecurring |-> rec,
     recurrenceType |-> type, recurrenceCount |-> count, daysOfWeek |-> dow]

ProbeEvents ==
    UNION {{MkEvent("e1", a, a + 30 * Minute, rec, ty, c, dow, until) :
                rec \in BOOLEAN, ty \in ProbeTypes,
                c \in RecurrenceCounts, dow \in DaysOfWeekSets,
                until \in EndDates(a)} : a \in Anchors}

ProbeChores ==
    {MkChore("c1", a, rec, ty, c, dow) :
        a \in Anchors, rec \in BOOLEAN, ty \in ProbeTypes,
        c \in RecurrenceCounts, dow \in DaysOfWeekSets}

\* Candidate dates around an anchor: every day from 2 days before it to
\* MaxDayOffset days after it, then days in the following weeks and months,
\* each at two times of day.
ProbeOffsets == (-2 .. MaxDayOffset) \cup {14, 21, 28, 29, 30, 31, 59, 61}
ProbeDates(start) ==
    {At(start \div SecPerDay + k, h, 0, 0) : k \in ProbeOffsets, h \in {3, 20}}

\* Events given to the expander one at a time.
ExpandCounts == {Absent, Some(-2), Some(2)}
ExpandEndDates(start) == {Absent, Some(0), Some(start + 3 * SecPerDay + 5 * Hour)}
ExpandEvents ==
    UNION {{MkEvent("e1", a, a + dur, rec, ty, c, dow, until) :
                dur \in {30 * Minute, 25 * Hour},
                rec \in BOOLEAN, ty \in RecurrenceTypes,
                c \in ExpandCounts, dow \in {{}, {1, 3, 5}},
                until \in ExpandEndDates(a)} : a \in Anchors}

\* Query windows around the day of a timestamp: one that covers it, one that
\* starts and ends in the middle of later days, one whose start lies after
\* its end, two in the following months, and the one that starts and ends at
\* the timestamp itself.
Windows(start) ==
    LET d == start \div SecPerDay
    IN  {<<At(d - 2, 5, 0, 0), At(d - 2 + WindowDays, 4, 59, 59)>>,
         <<At(d + 1, 12, 0, 0), At(d + 5, 6, 0, 0)>>,
         <<At(d + 5, 6, 0, 0), At(d + 1, 12, 0, 0)>>,
         <<At(d, 9, 0, 0), At(d, 6, 0, 0)>>,
         <<At(d + 27, 0, 0, 0), At(d + 27 + WindowDays, 0, 0, 0)>>,
         <<At(d + 57, 0, 0, 0), At(d + 57 + WindowDays, 0, 0, 0)>>,
         <<start, start>>}

\* Events given to the expander in lists of two or more.
ListShapes ==
    {MkEvent("x", At(0, 7, 30, 15), At(0, 8, 0, 15), TRUE, "daily", Some(1),
             {}, Absent),
     MkEvent("x", At(0, 6, 0, 0), At(0, 9, 0, 0), TRUE, "daily", Some(2),
             {}, Some(At(4, 0, 0, 0))),
     MkEvent("x", At(2, 7, 30, 15), At(2, 8, 30, 15), FALSE, "none", Absent,
             {}, Absent),
     MkEvent("x", At(1, 7, 30, 15), At(1, 7, 45, 15), TRUE, "weekly", Absent,
             {1, 3, 5}, Absent)}

EventIds == [n \in 1 .. (MaxEvents + 1) |-> <<"e1", "e2", "e3", "e4">>[n]]

EventLists ==
    UNION {{[i \in 1 .. n |-> [f[i] EXCEPT !._id = EventIds[i]]] :
                f \in [1 .. n -> ListShapes]} : n \in 2 .. MaxEvents}

\* A window longer than the iteration cap, for an open-ended weekly event
\* alone and followed by a non-recurring event late in the window.
LongWindow == <<At(-1, 0, 0, 0), At(maxIterations + 50, 0, 0, 0)>>
OpenEnded ==
    MkEvent("e1", At(0, 7, 30, 15), At(0, 8, 0, 15), TRUE, "weekly", Some(1),
            {}, Absent)
LateSingle ==
    MkEvent("e2", At(maxIterations + 20, 7, 30, 15),
            At(maxIterations + 20, 8, 0, 15), FALSE, "none", Absent, {}, Absent)

ListInputs ==
    UNION {{<<l, w[1], w[2]>> : w \in Windows(l[1].startTime)} :
              l \in EventLists}
    \cup {<<l, LongWindow[1], LongWindow[2]>> :
              l \in {<<OpenEnded>>, <<OpenEnded, LateSingle>>}}
    \cup {<<l, LongWindow[2], LongWindow[1]>> :
              l \in {<<OpenEnded>>, <<LateSingle>>}}

\* A monthly event anchored on Sat 31 Jan, and the range 1 Jan - 30 Apr.
MonthEnd ==
    MkEvent("e1", At(30, 23, 0, 0), At(30, 23, 30, 0), TRUE, "monthly",
            Some(1), {}, Absent)
JanToApr == <<At(0, 0, 0, 0), At(119, 23, 59, 59)>>

\* A weekly event on Mon/Wed/Fri anchored on Wed 7 Jan, and full weeks from
\* Sunday to Saturday: the week before the anchor's, the anchor's week and
\* the two weeks after it.
MidWeek ==
    MkEvent("e1", At(6, 14, 0, 0), At(6, 14, 30, 0), TRUE, "weekly", Some(1),
            {1, 3, 5}, Absent)
FullWeeks ==
    {<<At(3 + 7 * k, 5, 0, 0), At(10 + 7 * k, 4, 59, 59)>> : k \in -1 .. 2}

\* Daily events with interval 1 and an end date 3 days after the anchor,
\* early or late on that day, each with the range from its anchor to 10 days
\* after it.
EndedDaily ==
    {MkEvent("e1", At(d, 7, 30, 15), At(d, 8, 0, 15), TRUE, "daily", Some(1),
             {}, Some(At(d + 3, h, 0, 0))) : d \in {-3, 0}, h \in {0, 23}}
TenDays(start) == <<start, start + 10 * SecPerDay>>

\* An event every 2 days anchored on Mon 5 Jan from 09:00 to 09:30 Eastern
\* time, and the range from that Monday to the following Sunday.
EveryOtherDay ==
    MkEvent("e1", At(4, 14, 0, 0), At(4, 14, 30, 0), TRUE, "daily", Some(2),
            {}, Absent)
MondayToSunday == <<At(4, 5, 0, 0), At(11, 4, 59, 59)>>

\* The range of one day that starts in the morning of the day a timestamp
\* is on.
DayFromMorning(t) ==
    <<At(t \div SecPerDay, 5, 0, 0), At(t \div SecPerDay + 1, 5, 0, 0)>>

\* The family the events of the table belong to, and the callers of the
\* events query: a member of that family, a member of another family, a
\* user without a family and a request without identity.
HomeFamily == "f1"
Callers ==
    {[identity |-> TRUE, familyId |-> Some("f1")],
     [identity |-> TRUE, familyId |-> Some("f2")],
     [identity |-> TRUE, familyId |-> Absent],
     [identity |-> FALSE, familyId |-> Absent]}

ScenarioInputs ==
    {<<(<<MonthEnd>>), JanToApr[1], JanToApr[2]>>}
    \cup {<<(<<e>>), DayFromMorning(Value(e.recurrenceEndDate))[1],
                    DayFromMorning(Value(e.recurrenceEndDate))[2]>> :
              e \in EndedDaily}
    \cup {<<(<<EveryOtherDay>>), MondayToSunday[1], MondayToSunday[2]>>}
    \cup {<<(<<e>>), TenDays(e.startTime)[1], TenDays(e.startTime)[2]>> :
              e \in EndedDaily}
    \cup {<<(<<MidWeek>>), w[1], w[2]>> : w \in FullWeeks}

ExpandInputs ==
    UNION {{<<(<<e>>), w[1], w[2]>> : w \in Windows(e.startTime)} :
              e \in ExpandEvents}
    \cup ListInputs
    \cup ScenarioInputs

----------------------------------------------------------------------------
(* useEventEditor.  A "yyyy-MM-dd" string is the day number it names, a    *)
(* "HH:mm" string the minutes after midnight, both as optional values: the *)
(* empty string is <<>>.  A Date is an optional timestamp: an Invalid Date *)
(* is <<>>.                                                                *)

\* format(date, "yyyy-MM-dd") and format(date, "HH:mm").
formatDate(t) == Some(LocalDay(t))
formatTime(t) == Some(TimeOfDay(t) \div Minute)

\* new Date(date + "T" + time), the time with the seconds given: the local
\* reading, or an Invalid Date when a part is the empty string.
parseLocal(date, time, seconds) ==
    IF IsPresent(date) /\ IsPresent(time)
    THEN Some(UTC(Value(date) * SecPerDay + Value(time) * Minute + seconds))
    ELSE Absent

\* a.getTime() < b.getTime(): false when either is NaN.
timeBefore(a, b) == IsPresent(a) /\ IsPresent(b) /\ Value(a) < Value(b)

\* The state after useState: no event is being edited.
closedEditor ==
    [editingId |-> Absent, title |-> "", startDate |-> Absent,
     endDate |-> Absent, startTime |-> Absent, endTime |-> Absent,
     location |-> "", isRecurring |-> FALSE, recurrenceType |-> "weekly",
     daysOfWeek |-> {}, recurrenceEndDate |-> Absent]

NothingReturned == [returned |-> "nothing"]
NullReturned == [returned |-> "null"]

\* The end getUpdatedEvent returns for a start and the end entered.
clampedEnd(start, end) ==
    IF timeBefore(end, start) THEN Some(Value(start) + 30 * Minute) ELSE end

\* The value getUpdatedEvent returns in state ed of the hook.
getUpdatedEvent(ed) ==
    IF ~IsPresent(ed.editingId) THEN NullReturned
    ELSE LET start == parseLocal(ed.startDate, ed.startTime, 0)
             end == parseLocal(ed.endDate, ed.endTime, 0)
         IN  [returned |-> "event",
              title |-> IF ed.title = "" THEN "Untitled" ELSE ed.title,
              description |-> IF ed.location = "" THEN Absent
                              ELSE Some(ed.location),
              start |-> start,
              end |-> clampedEnd(start, end),
              isRecurring |-> ed.isRecurring,
              recurrenceType |-> IF ed.isRecurring
                                 THEN Some(ed.recurrenceType) ELSE Absent,
              recurrenceCount |-> IF ed.isRecurring THEN Some(1) ELSE Absent,
              daysOfWeek |-> IF ed.isRecurring
                                   /\ ed.recurrenceType = "weekly"
                             THEN Some(ed.daysOfWeek) ELSE Absent,
              recurrenceEndDate |->
                  IF ed.isRecurring /\ IsPresent(ed.recurrenceEndDate)
                  THEN parseLocal(ed.recurrenceEndDate, Some(23 * 60 + 59),
                                  59)
                  ELSE Absent]

\* The events the editor is opened on: a 90-minute event that starts in the
\* hour the Eastern clocks skip on Sun 26 Apr, and a daily event of 30
\* seconds on the next day.
EditorEvents ==
    {[sliceKey |-> "evt-1-1970-04-26", title |-> "Dinner",
      description |-> Some("Home"), start |-> At(115, 7, 30, 0),
      end |-> At(115, 9, 0, 0), isRecurring |-> FALSE,
      recurrenceType |-> Absent, daysOfWeek |-> Absent,
      recurrenceEndDate |-> Absent],
     [sliceKey |-> "evt-2-1970-04-27", title |-> "",
      description |-> Absent, start |-> At(116, 7, 0, 20),
      end |-> At(116, 7, 0, 50), isRecurring |-> TRUE,
      recurrenceType |-> Some("daily"), daysOfWeek |-> Absent,
      recurrenceEndDate |-> Some(At(120, 12, 0, 0))]}

\* What the date and time fields of the form can be set to: the empty
\* string, and two days and two times of day.
DateInputs == {Absent, Some(115), Some(116)}
TimeInputs == {Absent, Some(2 * 60 + 30), Some(3 * 60)}

\* openEditor(e, sliceKey)
OpenEditor ==
    /\ \E e \in EditorEvents :
          editor' =
              [editingId |-> Some(e.sliceKey),
               title |-> e.title,
               startDate |-> formatDate(e.start),
               endDate |-> formatDate(e.end),
               startTime |-> formatTime(e.start),
               endTime |-> formatTime(e.end),
               location |-> IF IsPresent(e.description)
                            THEN Value(e.description) ELSE "",
               isRecurring |-> e.isRecurring,
               recurrenceType |-> IF IsPresent(e.recurrenceType)
                                  THEN Value(e.recurrenceType) ELSE "weekly",
               daysOfWeek |-> IF IsPresent(e.daysOfWeek)
                              THEN Value(e.daysOfWeek) ELSE {getDay(e.start)},
               recurrenceEndDate |->
                   IF Truthy(e.recurrenceEndDate)
                   THEN formatDate(Value(e.recurrenceEndDate)) ELSE Absent]
    /\ updated' = NothingReturned
    /\ UNCHANGED <<tz, pc, pred, expandVars, outsideEditor>>

\* closeEditor()
CloseEditor ==
    /\ editor' = [editor EXCEPT !.editingId = Absent]
    /\ updated' = NothingReturned
    /\ UNCHANGED <<tz, pc, pred, expandVars, outsideEditor>>

\* setStartDate, setEndDate, setStartTime, setEndTime: the form fields.
SetStartDate ==
    /\ \E v \in DateInputs : editor' = [editor EXCEPT !.startDate = v]
    /\ updated' = NothingReturned
    /\ UNCHANGED <<tz, pc, pred, expandVars, outsideEditor>>

SetEndDate ==
    /\ \E v \in DateInputs : editor' = [editor EXCEPT !.endDate = v]
    /\ updated' = NothingReturned
    /\ UNCHANGED <<tz, pc, pred, expandVars, outsideEditor>>

SetStartTime ==
    /\ \E v \in TimeInputs : editor' = [editor EXCEPT !.startTime = v]
    /\ updated' = NothingReturned
    /\ UNCHANGED <<tz, pc, pred, expandVars, outsideEditor>>

SetEndTime ==
    /\ \E v \in TimeInputs : editor' = [editor EXCEPT !.endTime = v]
    /\ updated' = NothingReturned
    /\ UNCHANGED <<tz, pc, pred, expandVars, outsideEditor>>

\* setIsRecurring
SetIsRecurring ==
    /\ \E v \in BOOLEAN : editor' = [editor EXCEPT !.isRecurring = v]
    /\ updated' = NothingReturned
    /\ UNCHANGED <<tz, pc, pred, expandVars, outsideEditor>>

\* A call of getUpdatedEvent(); updated holds what it returned until the
\* next call of the hook.
GetUpdatedEvent ==
    /\ updated' = getUpdatedEvent(editor)
    /\ UNCHANGED <<tz, pc, pred, expandVars, editor, outsideEditor>>

EditorNext ==
    \/ OpenEditor
    \/ CloseEditor
    \/ SetStartDate
    \/ SetEndDate
    \/ SetStartTime
    \/ SetEndTime
    \/ SetIsRecurring
    \/ GetUpdatedEvent

----------------------------------------------------------------------------
(* The server.  A table is the set of its rows; a row's _id is the number  *)
(* of its insertion, so that rows read through an index come in the order  *)
(* of their _id.  The caller of a mutation is the identity of its session: *)
(* <<>> when signed out, <<clerkId>> when signed in.  A mutation that      *)
(* throws writes nothing; reply holds the mutation the step called, its    *)
(* arguments and its error ("" when it returned), and for the chores       *)
(* mutations the caller.                                                   *)

NoError == ""
NoReply == [fn |-> "none"]

\* Bounds of the server: how many completions are ever inserted, and how
\* many days the clock advances.
MaxCompletions == 2
MaxTicks == 1

ClockStart == At(10, 9, 0, 0)
ClockStep == 24 * Hour

UsersTable ==
    { [_id |-> "u1", clerkId |-> "k1", email |-> Some("mum@x.io"),
       familyId |-> Some("f1"), role |-> "parent"],
      [_id |-> "u2", clerkId |-> "k2", email |-> Absent,
       familyId |-> Some("f1"), role |-> "child"],
      [_id |-> "u3", clerkId |-> "k3", email |-> Some("dad@y.io"),
       familyId |-> Some("f2"), role |-> "parent"],
      [_id |-> "u4", clerkId |-> "k4", email |-> Some("new@z.io"),
       familyId |-> Absent, role |-> "parent"] }

\* The sessions calls come from: signed out, the four users, and one
\* signed-in identity that has no row in users yet.
Identities == {Absent, Some("k1"), Some("k2"), Some("k3"), Some("k4"), Some("k5")}

\* ctx.db.query("users").withIndex("by_clerkId", ...).unique()
userByClerkId(table, identity) ==
    LET rows == {u \in table : Some(u.clerkId) = identity}
    IN  IF rows = {} THEN Absent ELSE Some(CHOOSE u \in rows : TRUE)

\* ctx.db.get(id)
dbGet(table, id) ==
    LET rows == {r \in table : r._id = id}
    IN  IF rows = {} THEN Absent ELSE Some(CHOOSE r \in rows : TRUE)

\* .collect(): the rows in the order of their insertion.
RECURSIVE collect(_)
collect(rows) ==
    IF rows = {}
    THEN <<>>
    ELSE LET oldest == CHOOSE r \in rows : \A q \in rows : r._id <= q._id
         IN  <<oldest>> \o collect(rows \ {oldest})

\* ctx.db.patch(id, fields), given the patched row.
dbPatch(table, row, patched) == (table \ {row}) \cup {patched}

\* The mapping of a list of rows to their userId.
RECURSIVE userIdsOf(_)
userIdsOf(rows) ==
    IF rows = <<>> THEN <<>> ELSE <<Head(rows).userId>> \o userIdsOf(Tail(rows))

----------------------------------------------------------------------------
(* The chores mutations complete and uncomplete.                           *)

ChoresTable ==
    { [_id |-> "c1", familyId |-> "f1", pointValue |-> 5, isRecurring |-> FALSE,
       maxCompletions |-> Absent, isGroupChore |-> FALSE,
       assignedToIds |-> Absent, completed |-> FALSE, completedByIds |-> Absent],
      [_id |-> "c2", familyId |-> "f1", pointValue |-> 2, isRecurring |-> TRUE,
       maxCompletions |-> Some(1), isGroupChore |-> FALSE,
       assignedToIds |-> Some({"u2"}), completed |-> FALSE, completedByIds |-> Absent],
      [_id |-> "c3", familyId |-> "f2", pointValue |-> 3, isRecurring |-> FALSE,
       maxCompletions |-> Absent, isGroupChore |-> FALSE,
       assignedToIds |-> Absent, completed |-> FALSE, completedByIds |-> Absent] }

\* The choreId arguments: the three chores and an id of no chore.
ChoreIds == {"c1", "c2", "c3", "c9"}

\* The completionId arguments: none, and every id a completion can have.
CompletionIds == {Absent} \cup {Some(n) : n \in 1..MaxCompletions}

\* The checks complete and uncomplete share: the caller is signed in, is in
\* a family, and the chore exists and is of that family.
choreAccessError(identity, choreId, verb) ==
    LET user == userByClerkId(users, identity)
        chore == dbGet(chores, choreId)
    IN  IF ~IsPresent(identity) THEN "Unauthorized"
        ELSE IF ~IsPresent(user) \/ ~IsPresent(Value(user).familyId)
             THEN "You must be part of a family"
        ELSE IF ~IsPresent(chore) THEN "Chore not found"
        ELSE IF Some(Value(chore).familyId) # Value(user).familyId
             THEN "Cannot " \o verb \o " chores from another family"
        ELSE NoError

\* complete: the completions of the chore by the user of today.
todayCompletions(choreId, userId) ==
    LET todayStart == startOfDay(now)
        todayEnd == todayStart + 24 * Hour
    IN  {c \in choreCompletions :
            /\ c.choreId = choreId
            /\ c.completedAt >= todayStart
            /\ c.completedAt < todayEnd
            /\ c.userId = userId}

\* complete: the error it throws, NoError when it goes through.
completeError(identity, choreId) ==
    LET access == choreAccessError(identity, choreId, "complete")
        user == Value(userByClerkId(users, identity))
        chore == Value(dbGet(chores, choreId))
    IN  IF access # NoError THEN access
        ELSE IF /\ ~chore.isGroupChore
                /\ IsPresent(chore.assignedToIds)
                /\ user._id \notin Value(chore.assignedToIds)
             THEN "You are not assigned to this chore"
        ELSE IF /\ chore.isRecurring
                /\ Truthy(chore.maxCompletions)
                /\ Cardinality(todayCompletions(choreId, user._id))
                       >= Value(chore.maxCompletions)
             THEN "You've already completed this chore today"
        ELSE NoError

\* uncomplete: the completion to remove.
completionToRemove(userId, choreId, completionId) ==
    IF IsPresent(completionId)
    THEN dbGet(choreCompletions, Value(completionId))
    ELSE LET completions ==
                 collect({c \in choreCompletions :
                             c.choreId = choreId /\ c.userId = userId})
         IN  IF completions = <<>>
             THEN Absent
             ELSE Some(completions[Len(completions)])

\* uncomplete: the error it throws, NoError when it goes through.
uncompleteError(identity, choreId, completionId) ==
    LET access == choreAccessError(identity, choreId, "uncomplete")
        user == Value(userByClerkId(users, identity))
        completion == completionToRemove(user._id, choreId, completionId)
    IN  IF access # NoError THEN access
        ELSE IF ~IsPresent(completion) THEN "Completion not found"
        ELSE IF Value(completion).userId # user._id /\ user.role # "parent"
             THEN "Cannot uncomplete someone else's completion"
        ELSE NoError

\* uncomplete: the points rows it removes, the first row of the completion's
\* user with the choreId argument and the completion's time.
pointsToRemove(completion, choreId) ==
    LET rows == collect({p \in points :
                            /\ p.userId = completion.userId
                            /\ p.choreId = choreId
                            /\ p.awardedAt = completion.completedAt})
    IN  IF rows = <<>> THEN {} ELSE {rows[1]}

\* A call complete({choreId}).
Complete ==
    /\ created < MaxCompletions
    /\ \E identity \in Identities : \E choreId \in ChoreIds :
          LET error == completeError(identity, choreId)
              user == Value(userByClerkId(users, identity))
              chore == Value(dbGet(chores, choreId))
          IN  /\ reply' = [fn |-> "complete", identity |-> identity,
                           choreId |-> choreId, completionId |-> Absent,
                           error |-> error]
              /\ IF error # NoError
                 THEN UNCHANGED choreVars
                 ELSE /\ choreCompletions' = choreCompletions \cup
                            {[_id |-> created + 1, choreId |-> choreId,
                              userId |-> user._id, completedAt |-> now,
                              pointsAwarded |-> chore.pointValue]}
                      /\ points' = points \cup
                            {[_id |-> created + 1, userId |-> user._id,
                              familyId |-> Value(user.familyId),
                              choreId |-> choreId,
                              points |-> chore.pointValue, awardedAt |-> now]}
                      /\ chores' =
                            IF ~chore.isRecurring
                            THEN dbPatch(chores, chore,
                                     [chore EXCEPT
                                         !.completed = TRUE,
                                         !.completedByIds =
                                             Some((IF IsPresent(chore.completedByIds)
                                                   THEN Value(chore.completedByIds)
                                                   ELSE <<>>) \o <<user._id>>)])
                            ELSE chores
                      /\ created' = created + 1
    /\ UNCHANGED <<engineVars, editorVars, dragVars, inviteVars, users, now>>

\* A call uncomplete({choreId, completionId}).
Uncomplete ==
    /\ \E identity \in Identities : \E choreId \in ChoreIds :
       \E completionId \in CompletionIds :
          LET error == uncompleteError(identity, choreId, completionId)
              user == Value(userByClerkId(users, identity))
              chore == Value(dbGet(chores, choreId))
              completion ==
                  Value(completionToRemove(user._id, choreId, completionId))
              remainingCompletions ==
                  collect({c \in choreCompletions \ {completion} :
                              c.choreId = choreId})
              completedByIds == userIdsOf(remainingCompletions)
          IN  /\ reply' = [fn |-> "uncomplete", identity |-> identity,
                           choreId |-> choreId, completionId |-> completionId,
                           error |-> error]
              /\ IF error # NoError
                 THEN UNCHANGED choreVars
                 ELSE /\ points' = points \ pointsToRemove(completion, choreId)
                      /\ choreCompletions' = choreCompletions \ {completion}
                      /\ chores' =
                            IF ~chore.isRecurring
                            THEN dbPatch(chores, chore,
                                     [chore EXCEPT
                                         !.completed =
                                             Len(remainingCompletions) > 0,
                                         !.completedByIds =
                                             IF Len(completedByIds) > 0
                                             THEN Some(completedByIds)
                                             ELSE Absent])
                            ELSE chores
                      /\ UNCHANGED created
    /\ UNCHANGED <<engineVars, editorVars, dragVars, inviteVars, users, now>>

\* Time passes on the server.
Tick ==
    /\ now < ClockStart + MaxTicks * ClockStep
    /\ now' = now + ClockStep
    /\ reply' = NoReply
    /\ UNCHANGED <<engineVars, editorVars, dragVars, users, choreVars, inviteVars>>

ChoresNext ==
    \/ Complete
    \/ Uncomplete
    \/ Tick

----------------------------------------------------------------------------
(* The invitations mutations createInvitation, cancelInvitation and        *)
(* acceptInvitation.  The name and the picture of a user are left out.     *)

\* Bound: how many invitations are created on top of the two of the start.
MaxInvitations == 1

\* createInvitation: the life of an invitation, 7 days.
invitationLifetime == 7 * 24 * Hour

\* generateToken(): the tokens of different invitations are different.
tokenOf(id) == "t" \o ToString(id)

\* The table at the start: two pending invitations created within the last
\* seven days, the first one expiring within a day, the second one exactly
\* a day after the start.
InvitationsTable ==
    { [_id |-> 1, familyId |-> "f1", email |-> "new@z.io", invitedBy |-> "u1",
       token |-> tokenOf(1), status |-> "pending",
       createdAt |-> ClockStart - invitationLifetime + 12 * Hour,
       expiresAt |-> ClockStart + 12 * Hour,
       acceptedAt |-> Absent, acceptedBy |-> Absent],
      [_id |-> 2, familyId |-> "f2", email |-> "mum@x.io", invitedBy |-> "u3",
       token |-> tokenOf(2), status |-> "pending",
       createdAt |-> ClockStart - invitationLifetime + ClockStep,
       expiresAt |-> ClockStart + ClockStep,
       acceptedAt |-> Absent, acceptedBy |-> Absent] }

\* The ids an invitation can have, and the arguments of the calls: every
\* such id and token, and one of no invitation.
InvitationIds == 1..(Cardinality(InvitationsTable) + MaxInvitations)
InvitationIdInputs == InvitationIds \cup {0}
TokenInputs == {tokenOf(n) : n \in InvitationIdInputs}

\* The email arguments of createInvitation.
EmailInputs == {" New@Z.io ", "mum@x.io", "not an email"}

\* args.email.toLowerCase().trim(): of the inputs only the first has an
\* upper-case letter or a blank at its ends.
lowerTrim(email) == IF email = " New@Z.io " THEN "new@z.io" ELSE email

\* emailRegex.test(email): of the inputs all but the last have the form
\* x@y.z without blanks.
emailRegexTest(email) == email \notin {" New@Z.io ", "not an email"}

\* The sessions the invitations mutations are called from: signed out, a
\* parent of either family, a child, and the identity without a users row.
InvitationCallers == {Absent, Some("k1"), Some("k2"), Some("k3"), Some("k5")}

\* identity.email of a signed-in identity.
identityEmail(identity) ==
    LET user == userByClerkId(UsersTable, identity)
    IN  IF IsPresent(user) THEN Value(user).email ELSE Some("late@z.io")

\* The _id of the users row inserted for an identity.
newUserId(identity) == "u-" \o Value(identity)

\* ctx.db.query("invitations").withIndex("by_token", ...).unique()
invitationByToken(token) ==
    LET rows == {i \in invitations : i.token = token}
    IN  IF rows = {} THEN Absent ELSE Some(CHOOSE i \in rows : TRUE)

\* createInvitation: the error it throws, NoError when it goes through.
createInvitationError(identity, rawEmail) ==
    LET user == userByClerkId(users, identity)
        email == lowerTrim(rawEmail)
        existingMember == {u \in users : u.email = Some(email)}
        existingInvitations ==
            {i \in invitations : i.email = email /\ i.status = "pending"}
    IN  IF ~IsPresent(identity) THEN "Unauthorized"
        ELSE IF ~IsPresent(user) \/ Value(user).role # "parent"
             THEN "Only parents can invite other parents"
        ELSE IF ~IsPresent(Value(user).familyId)
             THEN "You must be in a family to send invitations"
        ELSE IF ~emailRegexTest(email)
             THEN "Please enter a valid email address"
        ELSE IF Value(user).email = Some(email)
             THEN "You cannot invite yourself"
        ELSE IF \E m \in existingMember : m.familyId = Value(user).familyId
             THEN "This person is already a member of your family"
        ELSE IF \E i \in existingInvitations :
                    Some(i.familyId) = Value(user).familyId
             THEN "An invitation has already been sent to this email"
        ELSE NoError

\* cancelInvitation: the error it throws, NoError when it goes through.
cancelInvitationError(identity, invitationId) ==
    LET user == userByClerkId(users, identity)
        invitation == dbGet(invitations, invitationId)
    IN  IF ~IsPresent(identity) THEN "Unauthorized"
        ELSE IF ~IsPresent(user) \/ Value(user).role # "parent"
             THEN "Only parents can cancel invitations"
        ELSE IF ~IsPresent(invitation) THEN "Invitation not found"
        ELSE IF Some(Value(invitation).familyId) # Value(user).familyId
             THEN "You can only cancel invitations for your own family"
        ELSE IF Value(invitation).status # "pending"
             THEN "This invitation is no longer pending"
        ELSE NoError

\* acceptInvitation with the check of expiresAt left out.
acceptInvitationErrorUnexpired(identity, token) ==
    LET invitation == invitationByToken(token)
    IN  IF ~IsPresent(identity)
        THEN "You must be logged in to accept an invitation"
        ELSE IF ~IsPresent(invitation) THEN "Invitation not found"
        ELSE IF Value(invitation).status # "pending"
             THEN "This invitation is no longer valid"
        ELSE NoError

\* acceptInvitation: the error it throws, NoError when it goes through.
acceptInvitationError(identity, token) ==
    LET invitation == invitationByToken(token)
    IN  IF ~IsPresent(identity)
        THEN "You must be logged in to accept an invitation"
        ELSE IF ~IsPresent(invitation) THEN "Invitation not found"
        ELSE IF Value(invitation).status # "pending"
             THEN "This invitation is no longer valid"
        ELSE IF now > Value(invitation).expiresAt
             THEN "This invitation has expired"
        ELSE NoError

\* A call createInvitation({email}).
CreateInvitation ==
    /\ Cardinality(invitations) < Cardinality(InvitationsTable) + MaxInvitations
    /\ \E identity \in InvitationCallers : \E rawEmail \in EmailInputs :
          LET error == createInvitationError(identity, rawEmail)
              user == Value(userByClerkId(users, identity))
              id == Cardinality(invitations) + 1
          IN  /\ reply' = [fn |-> "createInvitation", email |-> rawEmail,
                           error |-> error]
              /\ invitations' =
                    IF error # NoError
                    THEN invitations
                    ELSE invitations \cup
                            {[_id |-> id, familyId |-> Value(user.familyId),
                              email |-> lowerTrim(rawEmail),
                              invitedBy |-> user._id, token |-> tokenOf(id),
                              status |-> "pending", createdAt |-> now,
                              expiresAt |-> now + invitationLifetime,
                              acceptedAt |-> Absent, acceptedBy |-> Absent]}
    /\ UNCHANGED <<engineVars, editorVars, dragVars, choreVars, users, now>>

\* A call cancelInvitation({invitationId}).
CancelInvitation ==
    /\ \E identity \in InvitationCallers : \E invitationId \in InvitationIdInputs :
          LET error == cancelInvitationError(identity, invitationId)
              invitation == Value(dbGet(invitations, invitationId))
          IN  /\ reply' = [fn |-> "cancelInvitation",
                           invitationId |-> invitationId, error |-> error]
              /\ invitations' =
                    IF error # NoError
                    THEN invitations
                    ELSE dbPatch(invitations, invitation,
                             [invitation EXCEPT !.status = "cancelled"])
    /\ UNCHANGED <<engineVars, editorVars, dragVars, choreVars, users, now>>

\* A call acceptInvitation({token}).
AcceptInvitation ==
    /\ \E identity \in InvitationCallers : \E token \in TokenInputs :
          LET error == acceptInvitationError(identity, token)
              invitation == Value(invitationByToken(token))
              found == userByClerkId(users, identity)
              user == IF IsPresent(found)
                      THEN [Value(found) EXCEPT
                               !.familyId = Some(invitation.familyId),
                               !.role = "parent"]
                      ELSE [_id |-> newUserId(identity),
                            clerkId |-> Value(identity),
                            email |-> identityEmail(identity),
                            familyId |-> Some(invitation.familyId),
                            role |-> "parent"]
          IN  /\ reply' = [fn |-> "acceptInvitation", token |-> token,
                           error |-> error]
              /\ IF error # NoError
                 THEN UNCHANGED <<users, invitations>>
                 ELSE /\ users' = IF IsPresent(found)
                                  THEN dbPatch(users, Value(found), user)
                                  ELSE users \cup {user}
                      /\ invitations' =
                            dbPatch(invitations, invitation,
                                [invitation EXCEPT
                                    !.status = "accepted",
                                    !.acceptedAt = Some(now),
                                    !.acceptedBy = Some(user._id)])
    /\ UNCHANGED <<engineVars, editorVars, dragVars, choreVars, now>>

InvitationsNext ==
    \/ CreateInvitation
    \/ CancelInvitation
    \/ AcceptInvitation
    \/ Tick

----------------------------------------------------------------------------
(* useEvents: commitDrag.  A call runs to its await of the move mutation   *)
(* in one step, and goes on when the mutation settles; the callback of its *)
(* setTimeout runs later, as a step of its own.                            *)

\* Bound: how many calls of commitDrag get past the duplicate guard.
MaxDragCalls == 4

\* eventListRef.current: the events of the week, by id and start.
eventList ==
    { [id |-> "evt-1", start |-> At(3, 9, 30, 0)],
      [id |-> "evt-2", start |-> At(4, 18, 0, 0)] }

\* The drags commitDrag is called with: one of each event of the list and
\* one of an event the list no longer holds.
Drags ==
    { [id |-> "evt-1", dayOffset |-> 1, startMinutes |-> 607,
       durationMinutes |-> 30],
      [id |-> "evt-2", dayOffset |-> -1, startMinutes |-> 60,
       durationMinutes |-> 45],
      [id |-> "evt-9", dayOffset |-> 0, startMinutes |-> 0,
       durationMinutes |-> 60] }

\* Math.round(x) of x = n / d, for n >= 0 and d > 0.
roundDiv(n, d) == (2 * n + d) \div (2 * d)

\* The arguments commitDrag hands to the move mutation for a drag of an
\* event.
moveEventArgs(event, drag) ==
    LET targetDate == startOfDay(event.start)
        snappedStartMin == roundDiv(drag.startMinutes, 15) * 15
        h == snappedStartMin \div 60
        m == snappedStartMin % 60
        finalStart == setHours(addDays(targetDate, drag.dayOffset), h, m, 0)
        finalEnd == finalStart + drag.durationMinutes * Minute
    IN  [id |-> drag.id, startTime |-> finalStart, endTime |-> finalEnd]

\* The move mutations of an event id that are not settled yet.
inFlight(id) == {mv \in moves : mv.args.id = id}

\* commitDrag(drag) to its first await, or to its end when it has none.
CommitDrag ==
    /\ dragCalls < MaxDragCalls
    /\ \E drag \in Drags :
          LET found == {ev \in eventList : ev.id = drag.id}
              event == CHOOSE ev \in found : TRUE
          IN  IF committingDragRef = Some(drag.id)
              THEN UNCHANGED dragVars
              ELSE IF found = {}
              THEN /\ committingDragRef' = Absent
                   /\ timers' = timers + 1
                   /\ dragCalls' = dragCalls + 1
                   /\ UNCHANGED <<moves, eventsError>>
              ELSE /\ committingDragRef' = Some(drag.id)
                   /\ moves' = moves \cup
                          {[call |-> dragCalls + 1, args |-> moveEventArgs(event, drag)]}
                   /\ dragCalls' = dragCalls + 1
                   /\ UNCHANGED <<timers, eventsError>>
    /\ UNCHANGED <<engineVars, editorVars, serverVars, choreVars, inviteVars>>

\* The move mutation of a call resolves: the call runs its finally block.
MoveResolves ==
    /\ \E mv \in moves :
          /\ moves' = moves \ {mv}
          /\ timers' = timers + 1
    /\ UNCHANGED <<committingDragRef, dragCalls, eventsError>>
    /\ UNCHANGED <<engineVars, editorVars, serverVars, choreVars, inviteVars>>

\* The move mutation of a call rejects: the call sets the error and runs
\* its finally block.
MoveRejects ==
    /\ \E mv \in moves :
          /\ moves' = moves \ {mv}
          /\ timers' = timers + 1
    /\ eventsError' = Some("move failed")
    /\ UNCHANGED <<committingDragRef, dragCalls>>
    /\ UNCHANGED <<engineVars, editorVars, serverVars, choreVars, inviteVars>>

\* The callback of a setTimeout of a finally block runs.
ClearCommittingDrag ==
    /\ timers > 0
    /\ committingDragRef' = Absent
    /\ timers' = timers - 1
    /\ UNCHANGED <<moves, dragCalls, eventsError>>
    /\ UNCHANGED <<engineVars, editorVars, serverVars, choreVars, inviteVars>>

DragNext ==
    \/ CommitDrag
    \/ MoveResolves
    \/ MoveRejects
    \/ ClearCommittingDrag

----------------------------------------------------------------------------
(* The state machine: a run makes one call, of a predicate or of the       *)
(* expander, in a time zone fixed at start.                                *)

NoCall == [fn |-> "none"]

Init ==
    /\ tz \in TimeZones
    /\ pc = "idle"
    /\ pred = NoCall
    /\ events = <<>>
    /\ rangeStart = 0
    /\ rangeEnd = 0
    /\ idx = 0
    /\ currentDate = 0
    /\ iterations = 0
    /\ expandedEvents = <<>>
    /\ editor = closedEditor
    /\ updated = NothingReturned
    /\ users = UsersTable
    /\ now = ClockStart
    /\ reply = NoReply
    /\ chores = ChoresTable
    /\ choreCompletions = {}
    /\ points = {}
    /\ created = 0
    /\ invitations = InvitationsTable
    /\ committingDragRef = Absent
    /\ moves = {}
    /\ timers = 0
    /\ dragCalls = 0
    /\ eventsError = Absent

\* A call isEventOnDay(event, date).
CallIsEventOnDay ==
    /\ pc = "idle"
    /\ \E e \in ProbeEvents : \E d \in ProbeDates(e.startTime) :
          pred' = [fn |-> "isEventOnDay", rule |-> e, date |-> d,
                   result |-> isEventOnDay(e, d)]
    /\ pc' = "returned"
    /\ UNCHANGED <<tz, appVars, expandVars>>

\* A call isChoreOnDay(chore, date).
CallIsChoreOnDay ==
    /\ pc = "idle"
    /\ \E c \in ProbeChores : \E d \in ProbeDates(c.weekStart) :
          pred' = [fn |-> "isChoreOnDay", rule |-> c, date |-> d,
                   result |-> isChoreOnDay(c, d)]
    /\ pc' = "returned"
    /\ UNCHANGED <<tz, appVars, expandVars>>

\* Entry of expandRecurringEvents(events, rangeStart, rangeEnd).
ExpandCall ==
    /\ pc = "idle"
    /\ \E in \in ExpandInputs :
          /\ events' = in[1]
          /\ rangeStart' = in[2]
          /\ rangeEnd' = in[3]
    /\ idx' = 1
    /\ expandedEvents' = freshExpandedEvents(expandedEvents)
    /\ pc' = "for"
    /\ pred' = [fn |-> "expandRecurringEvents"]
    /\ UNCHANGED <<tz, appVars, currentDate, iterations>>

\* A second call of expandRecurringEvents with the arguments of the call
\* that returned; the list that call returned is kept for comparison.
ExpandRepeat ==
    /\ pc = "returned"
    /\ pred = [fn |-> "expandRecurringEvents"]
    /\ idx' = 1
    /\ expandedEvents' = freshExpandedEvents(expandedEvents)
    /\ pc' = "for"
    /\ pred' = [fn |-> "expandRecurringEvents", previous |-> expandedEvents]
    /\ UNCHANGED <<tz, appVars, events, rangeStart, rangeEnd, currentDate, iterations>>

\* for-loop body, non-recurring event: push it when it starts in the range.
ExpandNonRecurring ==
    /\ pc = "for"
    /\ idx <= Len(events)
    /\ ~events[idx].isRecurring
    /\ expandedEvents' =
          IF withinRange(events[idx].startTime, rangeStart, rangeEnd)
          THEN Append(expandedEvents, plainInstance(events[idx]))
          ELSE expandedEvents
    /\ idx' = idx + 1
    /\ UNCHANGED <<tz, appVars, pc, pred, events, rangeStart, rangeEnd, currentDate,
                   iterations>>

\* for-loop body, recurring event: set up the day walk.
ExpandRecurring ==
    /\ pc = "for"
    /\ idx <= Len(events)
    /\ events[idx].isRecurring
    /\ currentDate' = firstDate(events[idx], rangeStart)
    /\ iterations' = 0
    /\ pc' = "while"
    /\ UNCHANGED <<tz, appVars, pred, events, rangeStart, rangeEnd, idx, expandedEvents>>

\* One iteration of the day walk.
ExpandDay ==
    /\ pc = "while"
    /\ loopContinues(events[idx], currentDate, iterations, rangeEnd)
    /\ iterations' = iterations + 1
    /\ LET event == events[idx]
           instanceStart == instanceStartOf(event, currentDate)
       IN  expandedEvents' =
              IF /\ isEventOnDay(event, currentDate)
                 /\ withinRange(instanceStart, rangeStart, rangeEnd)
              THEN Append(expandedEvents, recurringInstance(event, instanceStart))
              ELSE expandedEvents
    /\ currentDate' = addDays(currentDate, 1)
    /\ UNCHANGED <<tz, appVars, pc, pred, events, rangeStart, rangeEnd, idx>>

\* The day walk ends: on to the next event.
ExpandWalkEnd ==
    /\ pc = "while"
    /\ ~loopContinues(events[idx], currentDate, iterations, rangeEnd)
    /\ idx' = idx + 1
    /\ pc' = "for"
    /\ UNCHANGED <<tz, appVars, pred, events, rangeStart, rangeEnd, currentDate,
                   iterations, expandedEvents>>

\* After the last event: sort by start time and return.
ExpandReturn ==
    /\ pc = "for"
    /\ idx > Len(events)
    /\ expandedEvents' = sortByStartTime(expandedEvents)
    /\ pc' = "returned"
    /\ UNCHANGED <<tz, appVars, pred, events, rangeStart, rangeEnd, idx, currentDate,
                   iterations>>

\* The events table holding the events of the list, all of HomeFamily.
eventsTable == [i \in 1 .. Len(events) |-> [familyId |-> HomeFamily,
                                            doc |-> events[i]]]

\* After the expansion returned: the events query of the server for the
\* same window, on the table that holds the events of the list.
CallGetCurrentFamilyEvents ==
    /\ pc = "returned"
    /\ pred = [fn |-> "expandRecurringEvents"]
    /\ \E caller \in Callers :
          pred' = [fn |-> "getCurrentFamilyEvents", caller |-> caller,
                   result |-> getCurrentFamilyEvents(eventsTable, caller,
                                                     rangeStart, rangeEnd)]
    /\ pc' = "queried"
    /\ UNCHANGED <<tz, appVars, expandVars>>

ExpandStep ==
    \/ ExpandNonRecurring
    \/ ExpandRecurring
    \/ ExpandDay
    \/ ExpandWalkEnd
    \/ ExpandReturn

Next ==
    \/ CallIsEventOnDay
    \/ CallIsChoreOnDay
    \/ ExpandCall
    \/ ExpandRepeat
    \/ CallGetCurrentFamilyEvents
    \/ ExpandStep

Spec == Init /\ [][Next]_vars

\* The event editor alone.
EditorSpec == Init /\ [][EditorNext]_vars

\* The chores mutations alone.
ChoresSpec == Init /\ [][ChoresNext]_vars

\* The invitations mutations alone.
InvitationsSpec == Init /\ [][InvitationsNext]_vars

\* commitDrag alone.
DragSpec == Init /\ [][DragNext]_vars


----------------------------------------------------------------------------
(* Properties.                                                             *)

IsEventCall == pred.fn = "isEventOnDay"
IsChoreCall == pred.fn = "isChoreOnDay"
IsPredCall == IsEventCall \/ IsChoreCall
IsExpandCall == pred.fn = "expandRecurringEvents"

\* The anchor of the rule of the predicate call, its calendar day, and the
\* calendar day and weekday of the candidate date.
anchor == IF IsEventCall THEN pred.rule.startTime ELSE pred.rule.weekStart
anchorDay == LocalDay(anchor)
candidateDay == LocalDay(pred.date)
candidateWeekday == (candidateDay + 4) % 7

\* The event carries an end date the code reads (present and not 0) and the
\* candidate's calendar day lies after the end date's calendar day.
afterReadEndDate ==
    /\ IsEventCall
    /\ IsPresent(pred.rule.recurrenceEndDate)
    /\ Value(pred.rule.recurrenceEndDate) # 0
    /\ candidateDay > LocalDay(Value(pred.rule.recurrenceEndDate))

\* The event of the list an instance was made from.
sourceOf(instance) ==
    CHOOSE e \in {events[i] : i \in 1 .. Len(events)} :
        e._id = instance.originalEventId

Instances == {expandedEvents[i] : i \in 1 .. Len(expandedEvents)}

\* C1: every instance of the expander starts within [rangeStart, rangeEnd],
\* for every rule shape and every range, rangeStart > rangeEnd included.
C1_InstancesWithinRange ==
    \A inst \in Instances :
        rangeStart <= inst.startTime /\ inst.startTime <= rangeEnd

\* C1 witness: a returned list with an instance of a recurring event, from a
\* window that starts in the middle of a day the event occurs on.
C1_Witness ==
    /\ pc = "returned" /\ IsExpandCall
    /\ Len(expandedEvents) >= 2
    /\ events[1].isRecurring
    /\ TimeOfDay(rangeStart) > TimeOfDay(events[1].startTime)
    /\ isEventOnDay(events[1], rangeStart)

\* The interval N >= 1 of the rule of the predicate call (absent counts 1).
positiveInterval ==
    \/ ~IsPresent(pred.rule.recurrenceCount)
    \/ Value(pred.rule.recurrenceCount) >= 1
intervalN ==
    IF IsPresent(pred.rule.recurrenceCount)
    THEN Value(pred.rule.recurrenceCount) ELSE 1

IsDailyCall ==
    /\ IsPredCall
    /\ pred.rule.isRecurring
    /\ pred.rule.recurrenceType = "daily"
    /\ positiveInterval

\* C2 as claimed: a daily rule with interval N matches exactly the days on
\* or after the anchor day whose distance from it is a multiple of N.
C2_DailyExactlyMultiples ==
    IsDailyCall =>
        (pred.result <=>
            /\ candidateDay >= anchorDay
            /\ (candidateDay - anchorDay) % intervalN = 0)

\* C2 amended: a daily rule with interval N matches exactly the days on or
\* after the anchor day whose distance from it is a multiple of N and, for
\* an event with an end date, that are not after the end date's day.
C2_DailyMultiplesUntilEnd ==
    IsDailyCall =>
        (pred.result <=>
            /\ candidateDay >= anchorDay
            /\ (candidateDay - anchorDay) % intervalN = 0
            /\ ~afterReadEndDate)

\* C2 witness: an event every 2 days with an end date matches 2 days after
\* its anchor.
C2_Witness ==
    /\ IsDailyCall /\ IsEventCall
    /\ pred.rule.recurrenceCount = Some(2)
    /\ IsPresent(pred.rule.recurrenceEndDate)
    /\ candidateDay = anchorDay + 2
    /\ pred.result

IsSingleEventCall == IsEventCall /\ ~pred.rule.isRecurring

\* C3 as claimed: a non-recurring event matches exactly on its anchor day,
\* whatever recurrenceCount, recurrenceType and daysOfWeek hold.
C3_SingleExactlyAnchorDay ==
    IsSingleEventCall => (pred.result <=> candidateDay = anchorDay)

\* C3 amended: a non-recurring event matches exactly on its anchor day,
\* unless it carries an end date whose day is before the anchor day, when it
\* matches on no day; recurrenceCount, recurrenceType and daysOfWeek never
\* change the answer.
C3_SingleAnchorDayUntilEnd ==
    IsSingleEventCall =>
        (pred.result <=> candidateDay = anchorDay /\ ~afterReadEndDate)

\* C3 witness: a non-recurring event with weekly fields set matches on its
\* anchor day.
C3_Witness ==
    /\ IsSingleEventCall
    /\ pred.rule.recurrenceType = "weekly"
    /\ pred.rule.recurrenceCount = Some(3)
    /\ pred.rule.daysOfWeek = {0}
    /\ candidateDay = anchorDay
    /\ pred.result

IsWeeklyCall ==
    /\ IsPredCall
    /\ pred.rule.isRecurring
    /\ pred.rule.recurrenceType = "weekly"

\* C4: a weekly rule with a non-empty daysOfWeek matches no candidate whose
\* weekday is outside daysOfWeek, whatever the interval and the week.
C4_WeeklyOnlyListedWeekdays ==
    (/\ IsWeeklyCall
     /\ pred.rule.daysOfWeek # {}
     /\ candidateWeekday \notin pred.rule.daysOfWeek)
        => ~pred.result

\* C4 witness: a weekly rule on Mon/Wed/Fri anchored on a Thursday is asked
\* about the Thursday one week later.
C4_Witness ==
    /\ IsWeeklyCall
    /\ pred.rule.daysOfWeek = {1, 3, 5}
    /\ pred.rule.recurrenceCount = Some(1)
    /\ candidateDay = anchorDay + 7
    /\ candidateWeekday = 4
    /\ ~pred.result

\* The answer of the predicate of the call for the same rule with interval 1.
answerWithIntervalOne ==
    IF IsEventCall
    THEN isEventOnDay([pred.rule EXCEPT !.recurrenceCount = Some(1)], pred.date)
    ELSE isChoreOnDay([pred.rule EXCEPT !.recurrenceCount = Some(1)], pred.date)

\* A call on a daily, weekly or monthly rule whose interval is absent, 0 or
\* negative.
IsNonPositiveIntervalCall ==
    /\ IsPredCall
    /\ pred.rule.isRecurring
    /\ pred.rule.recurrenceType \in {"daily", "weekly", "monthly"}
    /\ ~positiveInterval \/ ~IsPresent(pred.rule.recurrenceCount)

\* C5 as claimed: an interval that is absent, 0 or negative is treated as 1:
\* a daily, weekly or monthly rule with such an interval gets the answer of
\* the same rule with interval 1.
C5_NonPositiveIntervalIsOne ==
    IsNonPositiveIntervalCall => pred.result = answerWithIntervalOne

\* C6 as claimed: with recurrenceEndDate present, whatever its value, no
\* candidate day after the end date's calendar day matches.
C6_NothingAfterEndDate ==
    (/\ IsEventCall
     /\ IsPresent(pred.rule.recurrenceEndDate)
     /\ candidateDay > LocalDay(Value(pred.rule.recurrenceEndDate)))
        => ~pred.result

\* C7: no rule, recurring or not, matches a candidate day before the
\* anchor's calendar day.
C7_NothingBeforeAnchor ==
    (IsPredCall /\ candidateDay < anchorDay) => ~pred.result

\* C7 witness: a rule every 2 days is asked about the day 2 days before its
\* anchor.
C7_Witness ==
    /\ IsDailyCall
    /\ pred.rule.recurrenceCount = Some(2)
    /\ candidateDay = anchorDay - 2
    /\ ~pred.result

\* C8: every instance lasts exactly as long as the event it was made from.
C8_DurationPreserved ==
    \A inst \in Instances :
        inst.endTime - inst.startTime
            = sourceOf(inst).endTime - sourceOf(inst).startTime

\* C8 witness: a returned instance of a 25-hour recurring event on a day
\* after its anchor day.
C8_Witness ==
    /\ pc = "returned" /\ IsExpandCall
    /\ \E inst \in Instances :
          /\ sourceOf(inst).isRecurring
          /\ sourceOf(inst).endTime - sourceOf(inst).startTime = 25 * Hour
          /\ LocalDay(inst.startTime) > LocalDay(sourceOf(inst).startTime)

RecurringInstances == {inst \in Instances : sourceOf(inst).isRecurring}

\* C9 as claimed: every instance of a recurring event starts at the
\* wall-clock time of day of the event's anchor.
C9_WallClockPreserved ==
    \A inst \in RecurringInstances :
        TimeOfDay(inst.startTime) = TimeOfDay(sourceOf(inst).startTime)

\* The wall-clock reading tod does not exist on local day d: the hour from
\* 02:00 that the clocks skip when daylight time begins.
skippedReading(d, tod) ==
    /\ tz.dstStart < tz.dstEnd
    /\ d = tz.dstStart
    /\ tod >= 2 * Hour
    /\ tod < 3 * Hour

\* C9 amended: every instance of a recurring event starts at the wall-clock
\* time of day of the event's anchor, except on a day on which daylight
\* saving skips that time of day, where it starts one hour later.
C9_WallClockPreservedWhereItExists ==
    \A inst \in RecurringInstances :
        LET tod == TimeOfDay(sourceOf(inst).startTime)
        IN  TimeOfDay(inst.startTime) =
                IF skippedReading(LocalDay(inst.startTime), tod)
                THEN tod + Hour ELSE tod

\* C9 witness: a returned instance on a day after the change to daylight
\* time of an event anchored before it.
C9_Witness ==
    /\ pc = "returned" /\ IsExpandCall
    /\ \E inst \in RecurringInstances :
          /\ InDst(inst.startTime)
          /\ ~InDst(sourceOf(inst).startTime)
          /\ LocalDay(inst.startTime) > tz.dstStart

\* A measure of the work a running call has left: the events not yet
\* finished, each worth a full day walk, and the days the current walk may
\* still examine.
expandMeasure ==
    IF pc \in {"for", "while"}
    THEN (Len(events) + 1 - idx) * (maxIterations + 3)
         + (IF pc = "while" THEN maxIterations + 1 - iterations
            ELSE maxIterations + 2)
    ELSE 0

\* The guard of one of the steps of the expander holds (ENABLED ExpandStep,
\* written out: every step assigns all its primed variables).
canStep ==
    \/ pc = "for" /\ idx <= Len(events) /\ ~events[idx].isRecurring
    \/ pc = "for" /\ idx <= Len(events) /\ events[idx].isRecurring
    \/ pc = "for" /\ idx > Len(events)
    \/ pc = "while"
         /\ loopContinues(events[idx], currentDate, iterations, rangeEnd)
    \/ pc = "while"
         /\ ~loopContinues(events[idx], currentDate, iterations, rangeEnd)

\* C10: the expander terminates on every input (a running call can always
\* step, and every step lowers a measure that never falls below 0), a day
\* walk examines at most maxIterations days, and the events after an event
\* that reached the cap are still processed: the call returns only after the
\* last event.
C10_CappedAndTerminates ==
    /\ [](iterations <= maxIterations)
    /\ [](expandMeasure >= 0)
    /\ [](pc \in {"for", "while"} => canStep)
    /\ [][ExpandStep => expandMeasure' < expandMeasure]_vars
    /\ []((pc = "returned" /\ IsExpandCall) => idx = Len(events) + 1)

\* C10 witness: a call returns after a walk stopped by the cap, with an
\* instance of the event that follows the capped one.
C10_Witness ==
    /\ pc = "returned" /\ IsExpandCall
    /\ iterations = maxIterations
    /\ rangeEnd > currentDate
    /\ \E inst \in Instances : inst.originalEventId = "e2"

\* C11: the returned list is sorted ascending by start time: of every two
\* consecutive instances the first starts no later than the second,
\* whatever the order of the events in the input list.
C11_ResultSorted ==
    (pc = "returned" /\ IsExpandCall) =>
        \A i \in 1 .. (Len(expandedEvents) - 1) :
            expandedEvents[i].startTime <= expandedEvents[i + 1].startTime

\* C11 witness: a returned list in which an instance of the second event of
\* the input comes before an instance of the first event.
C11_Witness ==
    /\ pc = "returned" /\ IsExpandCall
    /\ Len(events) = 2
    /\ \E i \in 1 .. (Len(expandedEvents) - 1) :
          /\ expandedEvents[i].originalEventId = events[2]._id
          /\ expandedEvents[i + 1].originalEventId = events[1]._id
          /\ expandedEvents[i].startTime < expandedEvents[i + 1].startTime

\* The call that returned is the second of two calls with the same
\* arguments.
IsRepeatedCall ==
    pc = "returned" /\ IsExpandCall /\ "previous" \in DOMAIN pred

\* C12: a second call with the same events, in the same order, and the same
\* range returns the list the first call returned: the same instances in the
\* same order, instances with equal start times included; the arguments are
\* the ones the first call was given.
C12_RepeatedCallSameResult ==
    IsRepeatedCall => expandedEvents = pred.previous

\* C12 witness: a second call returns a list in which instances of two
\* events share a start time.
C12_Witness ==
    /\ IsRepeatedCall
    /\ \E i \in 1 .. (Len(expandedEvents) - 1) :
          /\ expandedEvents[i].startTime = expandedEvents[i + 1].startTime
          /\ expandedEvents[i].originalEventId
                # expandedEvents[i + 1].originalEventId

\* The number of instances in the list made from the event at position i.
instanceCount(i) ==
    Cardinality({j \in 1 .. Len(expandedEvents) :
                    expandedEvents[j].originalEventId = events[i]._id})

\* The non-recurring events of the list the call has dealt with.
SinglesDone ==
    {i \in 1 .. Len(events) : ~events[i].isRecurring /\ i < idx}

\* C13: a non-recurring event contributes exactly one instance when its
\* start lies in [rangeStart, rangeEnd], bounds included, and none
\* otherwise; never more than one.
C13_SingleOneOrNone ==
    IsExpandCall =>
        \A i \in SinglesDone :
            instanceCount(i) =
                IF rangeStart <= events[i].startTime
                       /\ events[i].startTime <= rangeEnd
                THEN 1 ELSE 0

\* C13 witness: a returned call whose range starts and ends at the start of
\* a non-recurring event, which contributes one instance.
C13_Witness ==
    /\ pc = "returned" /\ IsExpandCall
    /\ \E i \in SinglesDone :
          /\ rangeStart = events[i].startTime
          /\ rangeEnd = events[i].startTime
          /\ instanceCount(i) = 1

IsMonthlyCall ==
    /\ IsPredCall
    /\ pred.rule.isRecurring
    /\ pred.rule.recurrenceType = "monthly"
    /\ positiveInterval

\* Day of month of a calendar day, and the calendar months from the month
\* of the anchor to the month of the candidate.
dayOfMonth(d) == Civil(d).date
monthsBetween ==
    (Civil(candidateDay).year - Civil(anchorDay).year) * 12
    + (Civil(candidateDay).month - Civil(anchorDay).month)

\* The local calendar days of the instances of the list.
InstanceDays == {LocalDay(inst.startTime) : inst \in Instances}

\* The expansion of MonthEnd over JanToApr returned.
MonthEndReturned ==
    /\ pc = "returned" /\ IsExpandCall
    /\ events = <<MonthEnd>>
    /\ rangeStart = JanToApr[1] /\ rangeEnd = JanToApr[2]

\* Days 30 and 89 of 1970 are 31 Jan and 31 Mar.
MonthEndSkipsShortMonths ==
    MonthEndReturned => (InstanceDays = {30, 89} /\ Len(expandedEvents) = 2)

\* C14 as claimed: a monthly rule with interval N matches a candidate on or
\* after the anchor exactly when the days of month are equal and the months
\* between them are a multiple of N; an anchor on 31 Jan with interval 1
\* expanded over 1 Jan - 30 Apr gives 31 Jan and 31 Mar only.
C14_MonthlySameDayOfMonth ==
    /\ (IsMonthlyCall /\ candidateDay >= anchorDay) =>
           (pred.result <=>
               /\ dayOfMonth(candidateDay) = dayOfMonth(anchorDay)
               /\ monthsBetween % intervalN = 0)
    /\ MonthEndSkipsShortMonths

\* C14 amended: the same, and for an event with an end date the candidate
\* is not after the end date's day.
C14_MonthlySameDayOfMonthUntilEnd ==
    /\ (IsMonthlyCall /\ candidateDay >= anchorDay) =>
           (pred.result <=>
               /\ dayOfMonth(candidateDay) = dayOfMonth(anchorDay)
               /\ monthsBetween % intervalN = 0
               /\ ~afterReadEndDate)
    /\ MonthEndSkipsShortMonths

\* C14 witness: the expansion of the event anchored on 31 Jan returned, with
\* an instance on 31 Mar.
C14_Witness ==
    /\ MonthEndReturned
    /\ \E inst \in Instances :
          /\ dayOfMonth(LocalDay(inst.startTime)) = 31
          /\ Civil(LocalDay(inst.startTime)).month = 2

\* The expansion of MidWeek over a full week returned.
MidWeekReturned ==
    /\ pc = "returned" /\ IsExpandCall
    /\ events = <<MidWeek>>
    /\ <<rangeStart, rangeEnd>> \in FullWeeks

\* The Monday, Wednesday and Friday of the week of the range.
MonWedFri ==
    {LocalDay(rangeStart) + 1, LocalDay(rangeStart) + 3,
     LocalDay(rangeStart) + 5}

\* C15 as claimed: the weekly event on Mon/Wed/Fri anchored on a Wednesday,
\* expanded over a full week that does not end before the anchor, returns
\* three instances, on the Monday, Wednesday and Friday of that week.
C15_ThreeInstancesEveryWeek ==
    (MidWeekReturned /\ rangeEnd >= MidWeek.startTime) =>
        (InstanceDays = MonWedFri /\ Len(expandedEvents) = 3)

\* C15 amended: expanded over a full week, it returns one instance on each
\* Monday, Wednesday and Friday of that week that is not before the anchor's
\* day: three in a week after the anchor's week, the Wednesday and the
\* Friday in the anchor's own week, none in an earlier week.
C15_ListedWeekdaysFromAnchor ==
    MidWeekReturned =>
        LET expected ==
                {d \in MonWedFri : d >= LocalDay(MidWeek.startTime)}
        IN  /\ InstanceDays = expected
            /\ Len(expandedEvents) = Cardinality(expected)
            /\ (LocalDay(rangeStart) > LocalDay(MidWeek.startTime)
                   => Len(expandedEvents) = 3)

\* C15 witness: the expansion over the week after the anchor's week
\* returned, with an instance on its Monday.
C15_Witness ==
    /\ MidWeekReturned
    /\ LocalDay(rangeStart) = LocalDay(MidWeek.startTime) + 4
    /\ LocalDay(rangeStart) + 1 \in InstanceDays

\* A call on one daily event with interval 1 and an end date on or after
\* the anchor's day returned, for a range that starts no later than the
\* anchor and ends after the end date's day.
EndedDailyReturned ==
    /\ pc = "returned" /\ IsExpandCall
    /\ Len(events) = 1
    /\ events[1].isRecurring
    /\ events[1].recurrenceType = "daily"
    /\ events[1].recurrenceCount \in {Absent, Some(1)}
    /\ IsPresent(events[1].recurrenceEndDate)
    /\ LocalDay(Value(events[1].recurrenceEndDate))
          >= LocalDay(events[1].startTime)
    /\ rangeStart <= events[1].startTime
    /\ LocalDay(rangeEnd) > LocalDay(Value(events[1].recurrenceEndDate))

\* C16 as claimed: a daily event with interval 1 whose end date falls k days
\* after the anchor, expanded over a range that starts no later than the
\* anchor and ends after the end date, gives k + 1 instances: one on every
\* day from the anchor's day to the end date's day, none after it.
C16_DailyUntilEndDate ==
    EndedDailyReturned =>
        LET first == LocalDay(events[1].startTime)
            last == LocalDay(Value(events[1].recurrenceEndDate))
        IN  /\ Len(expandedEvents) = last - first + 1
            /\ InstanceDays = first .. last

\* C17 as claimed: the instanceDate of every instance is the start of the
\* calendar day the instance is on.
C17_InstanceDateIsStartOfDay ==
    \A inst \in Instances : inst.instanceDate = startOfDay(inst.startTime)

\* C17 amended: the instanceDate of every instance is the start timestamp
\* of the instance, on the day it was matched on at the time of day of the
\* instance; for a non-recurring event that is the event's own start.
C17_InstanceDateIsInstanceStart ==
    \A inst \in Instances :
        /\ inst.instanceDate = inst.startTime
        /\ startOfDay(inst.instanceDate) = startOfDay(inst.startTime)
        /\ ~sourceOf(inst).isRecurring
              => inst.instanceDate = sourceOf(inst).startTime

\* C17 witness: a returned list with an instance of a non-recurring event
\* and an instance of a recurring event on a day after its anchor's day.
C17_Witness ==
    /\ pc = "returned" /\ IsExpandCall
    /\ \E inst \in Instances : ~sourceOf(inst).isRecurring
    /\ \E inst \in RecurringInstances :
          LocalDay(inst.startTime) > LocalDay(sourceOf(inst).startTime)

\* An instance with the fields of an event, all but startTime and endTime
\* with the values the event has, and the event's _id as originalEventId.
samePayload(inst, event) ==
    /\ DOMAIN inst = DOMAIN event \cup {"instanceDate", "originalEventId"}
    /\ \A f \in DOMAIN event \ {"startTime", "endTime"} : inst[f] = event[f]
    /\ inst.originalEventId = event._id

\* Two lists with the same elements, each as many times.
sameElements(s, t) ==
    /\ Len(s) = Len(t)
    /\ \A i \in 1 .. Len(s) :
          Cardinality({j \in 1 .. Len(s) : s[j] = s[i]})
              = Cardinality({j \in 1 .. Len(t) : t[j] = s[i]})

\* C18: every instance has the payload of the event it was made from, all
\* fields but startTime and endTime unchanged, and that event's _id as
\* originalEventId: a step of the call leaves the list alone or appends one
\* instance with the payload of the event being processed, the return only
\* reorders the list, and every instance has the payload of the event of
\* the list whose _id it carries.
C18_PayloadPreserved ==
    /\ [][(pc \in {"for", "while"} /\ pc' # "returned") =>
            \/ expandedEvents' = expandedEvents
            \/ /\ Len(expandedEvents') = Len(expandedEvents) + 1
               /\ SubSeq(expandedEvents', 1, Len(expandedEvents))
                     = expandedEvents
               /\ samePayload(expandedEvents'[Len(expandedEvents')],
                              events[idx])]_vars
    /\ [][(pc = "for" /\ pc' = "returned") =>
            sameElements(expandedEvents', expandedEvents)]_vars
    /\ [](\A inst \in Instances : \A i \in 1 .. Len(events) :
             inst._id = events[i]._id => samePayload(inst, events[i]))

\* C18 witness: a returned list with instances of two events that differ in
\* their rule, one of them a recurring event's instance on a later day.
C18_Witness ==
    /\ pc = "returned" /\ IsExpandCall
    /\ Len(events) = 2
    /\ events[1].recurrenceType # events[2].recurrenceType
    /\ \E inst \in Instances : inst._id = events[1]._id
    /\ \E inst \in Instances :
          /\ inst._id = events[2]._id
          /\ events[2].isRecurring
          /\ inst.startTime > events[2].startTime

\* A call on a recurring rule whose type is absent or none of daily, weekly
\* and monthly.
IsFallbackCall ==
    /\ IsPredCall
    /\ pred.rule.isRecurring
    /\ pred.rule.recurrenceType \notin {"daily", "weekly", "monthly"}

\* The event carries an end date and the candidate's day lies after its
\* day.
afterEndDateDay ==
    /\ IsEventCall
    /\ IsPresent(pred.rule.recurrenceEndDate)
    /\ candidateDay > LocalDay(Value(pred.rule.recurrenceEndDate))

\* C19: a recurring rule without a known type matches every candidate day
\* that is on or after the anchor's day and, for an event, not after the end
\* date's day, whatever recurrenceCount and daysOfWeek hold; the call
\* returns a boolean.
C19_UnknownTypeEveryDay ==
    IsFallbackCall =>
        /\ pred.result \in BOOLEAN
        /\ (candidateDay >= anchorDay /\ ~afterEndDateDay) => pred.result

\* C19 witness: a rule of an unlisted type with interval 2 and daysOfWeek
\* {Sunday} matches 3 days after its anchor, on a day that is no Sunday.
C19_Witness ==
    /\ IsFallbackCall
    /\ pred.rule.recurrenceType = "yearly"
    /\ pred.rule.recurrenceCount = Some(2)
    /\ pred.rule.daysOfWeek = {0}
    /\ candidateDay = anchorDay + 3
    /\ candidateWeekday # 0
    /\ pred.result

\* The start of local calendar day d, and the time of day of a timestamp on
\* day d.
dayStart(d) == UTC(d * SecPerDay)
onDayAt(d, t) == UTC(d * SecPerDay + TimeOfDay(t))

\* The calendar days of the walk for an event as the claim gives it: from
\* the day of max(rangeStart, start) to the last day that starts no later
\* than min(rangeEnd, recurrenceEndDate).
walkCeiling(event) ==
    IF IsPresent(event.recurrenceEndDate)
          /\ Value(event.recurrenceEndDate) < rangeEnd
    THEN Value(event.recurrenceEndDate) ELSE rangeEnd
walkDays(event) ==
    LET from == IF event.startTime < rangeStart THEN rangeStart
                ELSE event.startTime
    IN  LocalDay(from) .. LocalDay(walkCeiling(event))

\* The days of the walk the event occurs on with a start within the range.
matchedDays(event) ==
    {d \in walkDays(event) :
        /\ isEventOnDay(event, dayStart(d))
        /\ rangeStart <= onDayAt(d, event.startTime)
        /\ onDayAt(d, event.startTime) <= rangeEnd}

\* The start times of the instances of the list made from the event at
\* position i.
instanceStarts(i) ==
    {inst.startTime :
        inst \in {x \in Instances : x.originalEventId = events[i]._id}}

\* The expansion of EveryOtherDay over MondayToSunday returned.
EveryOtherDayReturned ==
    /\ pc = "returned" /\ IsExpandCall
    /\ events = <<EveryOtherDay>>
    /\ rangeStart = MondayToSunday[1] /\ rangeEnd = MondayToSunday[2]

\* C20 as claimed: for a recurring event whose walk covers at most
\* maxIterations days, the returned list holds exactly one instance on each
\* day of the walk the event occurs on with a start within the range, and
\* no other instance of the event; the event every 2 days anchored on a
\* Monday gives Monday, Wednesday, Friday and Sunday of its week.
C20_OneInstancePerMatchedDay ==
    /\ (pc = "returned" /\ IsExpandCall) =>
          \A i \in 1 .. Len(events) :
              (/\ events[i].isRecurring
               /\ Cardinality(walkDays(events[i])) <= maxIterations)
                 => /\ instanceStarts(i)
                         = {onDayAt(d, events[i].startTime) :
                               d \in matchedDays(events[i])}
                    /\ instanceCount(i)
                         = Cardinality(matchedDays(events[i]))
    /\ EveryOtherDayReturned =>
          (InstanceDays = {4, 6, 8, 10} /\ Len(expandedEvents) = 4)

\* A call on a weekly rule with interval N >= 1 (absent counts as 1).
IsWeeklyIntervalCall == IsWeeklyCall /\ positiveInterval

\* The Sunday that starts the calendar week of a calendar day, and the
\* calendar weeks from the week of the anchor to the week of the candidate.
weekStartDay(d) == d - ((d + 4) % 7)
calendarWeeksBetween ==
    (weekStartDay(candidateDay) - weekStartDay(anchorDay)) \div 7

\* C21 as claimed: a weekly rule with interval N and a non-empty daysOfWeek
\* matches a candidate on or after the anchor's day exactly when its weekday
\* is in daysOfWeek and the calendar weeks between the anchor's week and the
\* candidate's week are a multiple of N (for an event, up to its end date).
C21_WeeklyByCalendarWeek ==
    (/\ IsWeeklyIntervalCall
     /\ pred.rule.daysOfWeek # {}
     /\ candidateDay >= anchorDay
     /\ ~afterEndDateDay)
        => (pred.result <=>
               /\ candidateWeekday \in pred.rule.daysOfWeek
               /\ calendarWeeksBetween % intervalN = 0)

\* C22 as claimed: a weekly rule with interval N and no daysOfWeek matches
\* exactly the days anchorDay + 7 * N * k, k = 0, 1, 2, ..., up to the end
\* date's day when the event carries an end date.
C22_WeeklyAnchorWeekday ==
    (IsWeeklyIntervalCall /\ pred.rule.daysOfWeek = {})
        => (pred.result <=>
               /\ candidateDay >= anchorDay
               /\ (candidateDay - anchorDay) % (7 * intervalN) = 0
               /\ ~afterEndDateDay)

IsSingleChoreCall == IsChoreCall /\ ~pred.rule.isRecurring

\* C23 as claimed: a non-recurring chore matches exactly on the calendar
\* day of its weekStart.
C23_SingleChoreExactlyAnchorDay ==
    IsSingleChoreCall => (pred.result <=> candidateDay = anchorDay)

\* C23 amended: a non-recurring chore matches exactly on the days from the
\* day of its weekStart to the Saturday of the calendar week (from Sunday)
\* that day is in.
C23_SingleChoreRestOfWeek ==
    IsSingleChoreCall =>
        (pred.result <=>
            /\ candidateDay >= anchorDay
            /\ weekStartDay(candidateDay) = weekStartDay(anchorDay))

\* C23 witness: a non-recurring chore anchored on a Thursday matches on the
\* Saturday that follows.
C23_Witness ==
    /\ IsSingleChoreCall
    /\ (anchorDay + 4) % 7 = 4
    /\ candidateDay = anchorDay + 2
    /\ pred.result

\* The event with the rule of a chore, anchored at the chore's weekStart,
\* without an end date.
eventOfChore(chore) ==
    MkEvent(chore._id, chore.weekStart, chore.weekStart + 30 * Minute,
            chore.isRecurring, chore.recurrenceType, chore.recurrenceCount,
            chore.daysOfWeek, Absent)

\* C24: on a recurring rule without an end date the two predicates agree:
\* isChoreOnDay on a chore anchored at weekStart = t answers as
\* isEventOnDay on an event with the same rule anchored at startTime = t,
\* for every type, interval, daysOfWeek and candidate date.
C24_ChoreAnswersAsEvent ==
    (IsChoreCall /\ pred.rule.isRecurring)
        => pred.result = isEventOnDay(eventOfChore(pred.rule), pred.date)

\* C24 witness: a recurring weekly chore every 2 weeks on Mon/Wed/Fri
\* matches 14 days after its anchor, as the event does.
C24_Witness ==
    /\ IsChoreCall
    /\ pred.rule.isRecurring
    /\ pred.rule.recurrenceType = "weekly"
    /\ pred.rule.recurrenceCount = Some(2)
    /\ pred.rule.daysOfWeek = {1, 3, 5}
    /\ candidateDay = anchorDay + 14
    /\ pred.result
    /\ isEventOnDay(eventOfChore(pred.rule), pred.date)

\* The events query returned to a member of the family of the events, after
\* the expansion of one event over the same window.
QueryOfMemberReturned ==
    /\ pc = "queried"
    /\ pred.fn = "getCurrentFamilyEvents"
    /\ pred.caller.identity
    /\ pred.caller.familyId = Some(HomeFamily)
    /\ Len(events) = 1

\* C25 as claimed: when the expansion of an event over a window returns an
\* instance, the events query for the same window, made by a member of the
\* event's family, returns the event.
C25_QueryKeepsExpandedEvents ==
    (QueryOfMemberReturned /\ Len(expandedEvents) >= 1)
        => \E i \in 1 .. Len(pred.result) : pred.result[i] = events[1]

\* getUpdatedEvent returned an event.
EventReturned == updated.returned = "event"

\* C26 as claimed: every event getUpdatedEvent returns has its end after
\* its start: an entered end that does not lie after the entered start is
\* replaced by the start plus 30 minutes.
C26_ReturnedDurationPositive ==
    EventReturned =>
        /\ IsPresent(updated.start)
        /\ IsPresent(updated.end)
        /\ Value(updated.end) > Value(updated.start)

----------------------------------------------------------------------------
(* Properties of the chores mutations.                                     *)

\* The completions a step deletes: rows are inserted and deleted, never
\* patched.
deletedCompletions == choreCompletions \ choreCompletions'

\* The family of the user an identity signs in.
familyOfIdentity(identity) ==
    LET user == userByClerkId(users, identity)
    IN  IF IsPresent(user) THEN Value(user).familyId ELSE Absent

\* The family of the chore of an id.
familyOfChore(choreId) ==
    LET chore == dbGet(chores, choreId)
    IN  IF IsPresent(chore) THEN Some(Value(chore).familyId) ELSE Absent

\* C27: uncomplete deletes only a completion of the chore its choreId
\* argument names, and that chore is of the caller's family: every
\* completion a step deletes is deleted by a call of uncomplete, carries the
\* call's choreId, and the chore of that id is of the family of the caller.
C27_UncompleteDeletesOnlyNamedChore ==
    [][\A c \in deletedCompletions :
          /\ reply'.fn = "uncomplete"
          /\ c.choreId = reply'.choreId
          /\ IsPresent(familyOfIdentity(reply'.identity))
          /\ familyOfChore(c.choreId) = familyOfIdentity(reply'.identity)]_vars

\* The rows of a table of a user and a chore.
rowsOf(table, userId, choreId) ==
    {r \in table : r.userId = userId /\ r.choreId = choreId}

\* C28: for every chore and every user, there are as many points rows of
\* the user and the chore as there are completions of the user and the
\* chore.
C28_OneAwardPerCompletion ==
    \A u \in users : \A c \in chores :
        Cardinality(rowsOf(points, u._id, c._id))
            = Cardinality(rowsOf(choreCompletions, u._id, c._id))

----------------------------------------------------------------------------
(* Properties of the invitations mutations.                                *)

IsAcceptCall == reply'.fn = "acceptInvitation"
IsCancelCall == reply'.fn = "cancelInvitation"

nonPending(invitation) == invitation.status # "pending"
expired(invitation) == now > invitation.expiresAt

\* The invitation a call of acceptInvitation or cancelInvitation names, if
\* there is one.
acceptTarget == invitationByToken(reply'.token)
cancelTarget == dbGet(invitations, reply'.invitationId)

\* Every invitation stays in the table, and its status moves only from
\* pending: to accepted by an acceptInvitation of its token at a time not
\* past expiresAt, to cancelled by a cancelInvitation of its id.
statusMovesOnlyFromPending ==
    \A i \in invitations : \E j \in invitations' :
        /\ j._id = i._id
        /\ j.status # i.status =>
               /\ i.status = "pending"
               /\ \/ /\ j.status = "accepted"
                     /\ IsAcceptCall
                     /\ reply'.token = i.token
                     /\ ~expired(i)
                  \/ /\ j.status = "cancelled"
                     /\ IsCancelCall
                     /\ reply'.invitationId = i._id

\* An accept of an invitation that is not pending or is expired throws.
acceptRefused ==
    (/\ IsAcceptCall
     /\ IsPresent(acceptTarget)
     /\ nonPending(Value(acceptTarget)) \/ expired(Value(acceptTarget)))
        => reply'.error # NoError

\* A cancel of an invitation that is not pending throws.
cancelOfNonPendingRefused ==
    (/\ IsCancelCall
     /\ IsPresent(cancelTarget)
     /\ nonPending(Value(cancelTarget)))
        => reply'.error # NoError

\* A cancel of an invitation that is expired throws.
cancelOfExpiredRefused ==
    (/\ IsCancelCall
     /\ IsPresent(cancelTarget)
     /\ expired(Value(cancelTarget)))
        => reply'.error # NoError

\* An accept or a cancel that throws leaves invitations and users as they
\* were.
failedAttemptWritesNothing ==
    ((IsAcceptCall \/ IsCancelCall) /\ reply'.error # NoError)
        => UNCHANGED <<invitations, users>>

\* C29 as stated: the status of an invitation changes only from pending to
\* accepted (by acceptInvitation, not past expiresAt) or from pending to
\* cancelled (by cancelInvitation); an accept or a cancel of an invitation
\* that is not pending or is expired throws and leaves invitations and users
\* unchanged.
C29_StatusOnlyFromPendingExpiredRefused ==
    [][/\ statusMovesOnlyFromPending
       /\ acceptRefused
       /\ cancelOfNonPendingRefused
       /\ cancelOfExpiredRefused
       /\ failedAttemptWritesNothing]_vars

\* C29 amended: as C29, but only an accept is refused for expiry; a cancel
\* is refused when the invitation is not pending, and a pending invitation
\* can be cancelled after it expired.
C29_StatusOnlyFromPending ==
    [][/\ statusMovesOnlyFromPending
       /\ acceptRefused
       /\ cancelOfNonPendingRefused
       /\ failedAttemptWritesNothing]_vars

\* An accept was refused for expiry while one invitation is accepted and
\* another one cancelled.
C29_Witness ==
    /\ reply.fn = "acceptInvitation"
    /\ reply.error = "This invitation has expired"
    /\ \E i \in invitations : i.status = "accepted"
    /\ \E i \in invitations : i.status = "cancelled"
    /\ \E i \in invitations : i.status = "pending" /\ now > i.expiresAt

----------------------------------------------------------------------------
(* Properties of commitDrag.                                               *)

\* C30: under every interleaving of commitDrag calls, of the settling of
\* their move mutations and of their timers, at most one move mutation of
\* an event id is in flight: a commitDrag of an id whose move is in flight
\* issues no second one.
C30_AtMostOneMovePerEvent ==
    \A ev \in eventList : Cardinality(inFlight(ev.id)) <= 1

====
